---- MODULE Spec2Model ----
(***************************************************************************)
(* tshet-uinh-py: the 音韻地位 (phonological position) value type, its      *)
(* validator 驗證, the description round trips, the 屬於 expression         *)
(* evaluator and the 反切 inference (執行反切).                              *)
(*                                                                         *)
(* TLA+ strings are ASCII, so every Chinese value is written as a label:   *)
(* the same character always gets the same label.                          *)
(* 幫=bang  滂=pang  並=bing  明=ming  端=duan  透=tou  定=ding  泥=ni  來=lai  知=zhi1  徹=che*)
(* 澄=cheng  孃=niang1  精=jing  清=qing1  從=cong  心=xin1  邪=xie1  莊=zhuang  初=chu  崇=chong*)
(* 生=sheng  俟=si  章=zhang  昌=chang1  常=chang2  書=shu  船=chuan  日=ri  見=jian  溪=xi  羣=qun1*)
(* 疑=yi1  影=ying  曉=xiao1  匣=xia  云=yun  以=yi2  東=dong1  冬=dong2  鍾=zhong  江=jiang  支=zhi2*)
(* 脂=zhi3  之=zhi4  微=wei  魚=yu1  虞=yu2  模=mo  齊=qi  祭=ji  泰=tai  佳=jia1  皆=jie  夬=guai*)
(* 灰=hui  咍=hai  廢=fei  真=zhen1  臻=zhen2  文=wen  殷=yin1  元=yuan  魂=hun  痕=hen  寒=han*)
(* 刪=shan1  山=shan2  先=xian1  仙=xian2  蕭=xiao2  宵=xiao3  肴=yao  豪=hao  歌=ge  麻=ma  陽=yang*)
(* 唐=tang  庚=geng1  耕=geng2  青=qing2  蒸=zheng  登=deng  尤=you1  侯=hou1  幽=you2  侵=qin*)
(* 覃=tan1  談=tan2  鹽=yan1  添=tian  咸=xian3  銜=xian4  嚴=yan2  凡=fan  開=kai  合=he  平=ping*)
(* 上=shang  去=qu  入=ru  脣=chun  舌=she  齒=chi  牙=ya  喉=hou2  通=tong  止=zhi5  遇=yu3  蟹=xie2*)
(* 效=xiao4  果=guo  假=jia2  宕=dang  梗=geng3  曾=zeng  流=liu  深=shen  娘=niang2  群=qun2*)
(* 眞=zhen3  欣=xin2  陰=yin2  全=quan  次=ci  濁=zhuo  一=1  二=2  三=3  四=4       *)
(* The characters that spell the words of descriptions and expressions:    *)
(* 母=mu0  等=deng0  類=lei0  韻=yun0  聲=sheng0  音=yin0  攝=she0  組=zu0  口=kou  中=zhong0*)
(* 立=li  不=bu  分=fen  仄=ze  舒=shu0  鈍=dun  銳=rui  非=fei0  且=qie  或=huo; the full-width*)
(* parentheses are "fw(" and "fw)"; a string is the sequence of its         *)
(* characters; 短=duan3  路=lu  即=ji2  求=qiu  值=zhi6 spell no condition.    *)
(* 等 一二三四 are "1" "2" "3" "4"; 類 are "A" "B" "C"; Python's None is     *)
(* "None".  桓=huan1  重=chong2  紐=niu are values of no attribute.          *)
(***************************************************************************)
EXTENDS Naturals, Integers, Sequences, FiniteSets, TLC

VARIABLES
    pc,      \* position of the scenario: "start", then the name of the last call
    arg,     \* the six raw constructor arguments [mu, hu, deng, lei, yun, sheng]
    kinds,   \* the 邊緣地位種類 argument (a sequence of kind labels)
    self,    \* the constructed 音韻地位 (its six fields), or None
    err,     \* the ValueError raised by the last call, or NoError
    out,     \* the value returned by the last call on self, or None
    other,   \* a second 音韻地位, the receiver of 屬於, or None
    upper,   \* 執行反切: 上字音韻地位
    lower,   \* 執行反切: 下字音韻地位
    logger,  \* default_logger: its enable flag and its buffer of messages
    wei,     \* a 韻鏡位置 (its 轉號, 上位 and 右位), or None
    args,    \* the arguments of 屬於, 判斷 or 調整 and what they were written from, or None
    called   \* the callables among the arguments, or the calls on the logger, so far, in order

vars == <<pc, arg, kinds, self, err, out, other, upper, lower, logger, wei, args, called>>

None == "None"
NoError == <<>>

Range(s) == {s[i] : i \in DOMAIN s}

----------------------------------------------------------------------------
(* 音韻屬性常量 *)

\* 所有["母"] = 幫滂並明端透定泥來知徹澄孃精清從心邪莊初崇生俟章昌常書船日見溪羣疑影曉匣云以
SuoYou_Mu ==
    <<"bang", "pang", "bing", "ming", "duan", "tou", "ding", "ni", "lai", "zhi1", "che",
    "cheng", "niang1", "jing", "qing1", "cong", "xin1", "xie1", "zhuang", "chu", "chong",
    "sheng", "si", "zhang", "chang1", "chang2", "shu", "chuan", "ri", "jian", "xi", "qun1",
    "yi1", "ying", "xiao1", "xia", "yun", "yi2">>

\* 所有["韻"] = 東冬鍾江支脂之微魚虞模齊祭泰佳皆夬灰咍廢真臻文殷元魂痕寒刪山先仙蕭宵肴豪歌麻陽唐庚耕清青蒸登尤侯幽侵覃談鹽添咸銜嚴凡
SuoYou_Yun ==
    <<"dong1", "dong2", "zhong", "jiang", "zhi2", "zhi3", "zhi4", "wei", "yu1", "yu2", "mo",
    "qi", "ji", "tai", "jia1", "jie", "guai", "hui", "hai", "fei", "zhen1", "zhen2", "wen",
    "yin1", "yuan", "hun", "hen", "han", "shan1", "shan2", "xian1", "xian2", "xiao2", "xiao3",
    "yao", "hao", "ge", "ma", "yang", "tang", "geng1", "geng2", "qing1", "qing2", "zheng",
    "deng", "you1", "hou1", "you2", "qin", "tan1", "tan2", "yan1", "tian", "xian3", "xian4",
    "yan2", "fan">>

\* 鈍音母 = 幫滂並明見溪羣疑影曉匣云
DunYinMu ==
    {"bang", "pang", "bing", "ming", "jian", "xi", "qun1", "yi1", "ying", "xiao1", "xia", "yun"}

\* 陰聲韻 = 支脂之微魚虞模齊祭泰佳皆夬灰咍廢蕭宵肴豪歌麻侯尤幽
YinShengYun ==
    {"zhi2", "zhi3", "zhi4", "wei", "yu1", "yu2", "mo", "qi", "ji", "tai", "jia1", "jie",
    "guai", "hui", "hai", "fei", "xiao2", "xiao3", "yao", "hao", "ge", "ma", "hou1", "you1",
    "you2"}

\* 呼韻搭配: the rimes by the rounding they combine with (開合, 開, 合, 中立)
HuYunDaPei ==
    [ kaihe |->
        {"zhi2", "zhi3", "wei", "qi", "ji", "tai", "jia1", "jie", "guai", "fei", "zhen1", "yuan",
        "han", "shan1", "shan2", "xian1", "xian2", "ge", "ma", "yang", "tang", "geng1", "geng2",
        "qing1", "qing2", "zheng", "deng"},
      kai |->
        {"hai", "hen", "yin1", "yan2", "zhi4", "yu1", "zhen2", "xiao2", "xiao3", "yao", "hao",
        "you2", "qin", "tan1", "tan2", "yan1", "tian", "xian3", "xian4"},
      he |->
        {"hui", "hun", "wen", "fan", "yu2"},
      zhongli |->
        {"dong1", "dong2", "zhong", "jiang", "mo", "you1", "hou1"} ]

\* 等母搭配: in the iteration order of the dictionary; deng is the key (the admissible 等)
DengMuDaPei ==
    << [deng |-> {"1", "2", "3", "4"}, mu |->
        {"bang", "pang", "bing", "ming", "lai", "jian", "xi", "qun1", "yi1", "ying", "xiao1", "xia"}],
       [deng |-> {"1", "2", "4"}, mu |->
        {"duan", "tou", "ding", "ni"}],
       [deng |-> {"2", "3"}, mu |->
        {"zhi1", "che", "cheng", "niang1", "zhuang", "chu", "chong", "sheng", "si"}],
       [deng |-> {"1", "3", "4"}, mu |->
        {"jing", "qing1", "cong", "xin1", "xie1"}],
       [deng |-> {"3"}, mu |->
        {"zhang", "chang1", "chang2", "shu", "chuan", "ri", "yun", "yi2"}] >>

\* 等韻搭配: in the iteration order of the dictionary; deng is the key as a sequence of 等
DengYunDaPei ==
    << [deng |-> <<"1">>, yun |->
        {"dong2", "mo", "tai", "hai", "hui", "hen", "hun", "han", "hao", "tang", "deng", "hou1",
        "tan1", "tan2"}],
       [deng |-> <<"2">>, yun |->
        {"jiang", "jia1", "jie", "guai", "shan1", "shan2", "yao", "geng2", "xian3", "xian4"}],
       [deng |-> <<"3">>, yun |->
        {"zhong", "zhi2", "zhi3", "zhi4", "wei", "yu1", "yu2", "ji", "fei", "zhen1", "zhen2",
        "yin1", "yuan", "wen", "xian2", "xiao3", "yang", "qing1", "zheng", "you1", "you2", "qin",
        "yan1", "yan2", "fan"}],
       [deng |-> <<"4">>, yun |->
        {"qi", "xian1", "xiao2", "qing2", "tian"}],
       [deng |-> <<"1", "3">>, yun |->
        {"dong1", "ge"}],
       [deng |-> <<"2", "3">>, yun |->
        {"ma", "geng1"}] >>

\* 母到清濁, each value the two characters of 全清, 次清, 全濁 or 次濁
MuDaoQingZhuo ==
    [x \in {"bang", "duan", "zhi1", "jing", "xin1", "zhuang", "sheng", "zhang", "shu", "jian",
    "ying", "xiao1"} |-> <<"quan", "qing1">>] @@ [x \in {"pang", "tou", "che", "qing1", "chu",
    "chang1", "xi"} |-> <<"ci", "qing1">>] @@ [x \in {"bing", "ding", "cheng", "cong", "xie1", "chong",
    "si", "chang2", "chuan", "qun1", "xia"} |-> <<"quan", "zhuo">>] @@ [x \in {"ming", "ni", "lai",
    "niang1", "ri", "yi1", "yun", "yi2"} |-> <<"ci", "zhuo">>]

\* 母到音
MuDaoYin ==
    [x \in {"bang", "pang", "bing", "ming"} |-> "chun"] @@ [x \in {"duan", "tou", "ding", "ni",
    "zhi1", "che", "cheng", "niang1", "lai"} |-> "she"] @@ [x \in {"jing", "qing1", "cong",
    "xin1", "xie1", "zhuang", "chu", "chong", "sheng", "si", "zhang", "chang1", "chang2", "shu",
    "chuan", "ri"} |-> "chi"] @@ [x \in {"jian", "xi", "qun1", "yi1"} |-> "ya"] @@ [x \in
    {"ying", "xiao1", "xia", "yun", "yi2"} |-> "hou2"]

\* 母到組 (來, 日, 以 belong to no 組)
MuDaoZu ==
    [x \in {"bang", "pang", "bing", "ming"} |-> "bang"] @@ [x \in {"duan", "tou", "ding", "ni"}
    |-> "duan"] @@ [x \in {"lai", "ri", "yi2"} |-> "None"] @@ [x \in {"zhi1", "che", "cheng",
    "niang1"} |-> "zhi1"] @@ [x \in {"jing", "qing1", "cong", "xin1", "xie1"} |-> "jing"] @@ [m
    \in {"zhuang", "chu", "chong", "sheng", "si"} |-> "zhuang"] @@ [x \in {"zhang", "chang1",
    "chang2", "shu", "chuan"} |-> "zhang"] @@ [x \in {"jian", "xi", "qun1", "yi1"} |-> "jian"]
    @@ [x \in {"ying", "xiao1", "xia", "yun"} |-> "ying"]

\* 韻到攝
YunDaoShe ==
    [x \in {"dong1", "dong2", "zhong"} |-> "tong"] @@ [x \in {"jiang"} |-> "jiang"] @@ [x \in
    {"zhi2", "zhi3", "zhi4", "wei"} |-> "zhi5"] @@ [x \in {"yu1", "yu2", "mo"} |-> "yu3"] @@ [m
    \in {"qi", "ji", "tai", "jia1", "jie", "guai", "hui", "hai", "fei"} |-> "xie2"] @@ [x \in
    {"zhen1", "zhen2", "wen", "yin1", "hun", "hen"} |-> "zhen2"] @@ [x \in {"yuan", "han",
    "shan1", "shan2", "xian1", "xian2"} |-> "shan2"] @@ [x \in {"xiao2", "xiao3", "yao", "hao"}
    |-> "xiao4"] @@ [x \in {"ge"} |-> "guo"] @@ [x \in {"ma"} |-> "jia2"] @@ [x \in {"yang",
    "tang"} |-> "dang"] @@ [x \in {"geng1", "geng2", "qing1", "qing2"} |-> "geng3"] @@ [x \in
    {"zheng", "deng"} |-> "zeng"] @@ [x \in {"you1", "hou1", "you2"} |-> "liu"] @@ [x \in
    {"qin"} |-> "shen"] @@ [x \in {"tan1", "tan2", "yan1", "tian", "xian3", "xian4", "yan2",
    "fan"} |-> "xian3"]


\* 所有: the closed domain of each of the six attributes, in the order of the lists
SuoYou ==
    [ mu    |-> SuoYou_Mu,
      hu    |-> <<"kai", "he">>,
      deng  |-> <<"1", "2", "3", "4">>,
      lei   |-> <<"A", "B", "C">>,
      yun   |-> SuoYou_Yun,
      sheng |-> <<"ping", "shang", "qu", "ru">> ]

\* the domains as sets
SuoYouSet ==
    [ mu |-> Range(SuoYou.mu), hu |-> Range(SuoYou.hu), deng |-> Range(SuoYou.deng),
      lei |-> Range(SuoYou.lei), yun |-> Range(SuoYou.yun), sheng |-> Range(SuoYou.sheng) ]

----------------------------------------------------------------------------
(* 音韻地位.py *)

\* 已知邊緣地位: descriptions (strings, here sequences of characters) accepted
\* without declared kinds
YiZhiBianYuanDiWei ==
    { <<"bing", "3", "A", "yang", "shang">>,   \* 並三A陽上
      <<"ding", "kai", "4", "zhi3", "qu">>,   \* 定開四脂去
      <<"duan", "kai", "2", "geng1", "shang">>,   \* 端開二庚上
      <<"duan", "kai", "2", "ma", "shang">>,   \* 端開二麻上
      <<"duan", "kai", "4", "ma", "ping">>,   \* 端開四麻平
      <<"duan", "kai", "4", "ma", "shang">>,   \* 端開四麻上
      <<"ding", "kai", "2", "jia1", "shang">>,   \* 定開二佳上
      <<"duan", "4", "you1", "ping">>,   \* 端四尤平
      <<"yun", "kai", "3", "C", "zhi4", "shang">>,   \* 云開三C之上
      <<"yun", "kai", "3", "B", "xian2", "ping">> }   \* 云開三B仙平

\* _UNCHECKED = ("@UNCHECKED@",)
UNCHECKED == <<"@UNCHECKED@">>

\* the six attributes of a tuple t as the string 母 + 呼 + 等 + 類 + 韻 + 聲,
\* where a None 呼 or 類 contributes the empty string
Concat(mu, hu, deng, lei, yun, sheng) ==
    <<mu>> \o (IF hu = None THEN <<>> ELSE <<hu>>) \o <<deng>>
          \o (IF lei = None THEN <<>> ELSE <<lei>>) \o <<yun, sheng>>

\* s.replace("A", ""), on a string of 類 letters
WithoutA(s) == SelectSeq(s, LAMBDA c : c # "A")

\* the pairs table of 類搭配, in order
LeiDaPeiPairs ==
    << [lei |-> <<"C">>, yun |-> {"dong1", "zhong", "zhi4", "wei", "yu1", "yu2", "fei", "yin1", "yuan", "wen", "ge", "you1", "yan2", "fan"}],
       [lei |-> <<"A", "B">>, yun |-> {"zhi2", "zhi3", "ji", "zhen1", "xian2", "xiao3", "ma", "you2", "qin", "yan1"}],
       [lei |-> <<"A">>, yun |-> {"qing1"}],
       [lei |-> <<"B">>, yun |-> {"geng1"}],
       [lei |-> <<"B", "C">>, yun |-> {"zheng"}],
       [lei |-> <<"C", "A">>, yun |-> {"yang"}] >>

\* 類搭配(母, 韻): (典型搭配類, 可用類), or unknown where it raises ValueError
LeiDaPei(mu, yun) ==
    LET hits == {i \in DOMAIN LeiDaPeiPairs : yun \in LeiDaPeiPairs[i].yun}
    IN  IF hits = {}
        THEN [unknown |-> TRUE, dianxing |-> <<>>, keyong |-> <<>>]
        ELSE LET i == CHOOSE i \in hits : \A j \in hits : i <= j
                 leizu == LeiDaPeiPairs[i].lei
                 normalized == IF leizu = <<"C", "A">> THEN <<"C">> ELSE leizu
             IN  IF mu = "yun"
                 THEN [unknown |-> FALSE, dianxing |-> WithoutA(normalized),
                       keyong |-> WithoutA(leizu)]
                 ELSE [unknown |-> FALSE, dianxing |-> normalized, keyong |-> leizu]

BangZuMu == {"bang", "pang", "bing", "ming"}            \* "幫滂並明"
DuanZuMu == {"duan", "tou", "ding", "ni"}               \* "端透定泥"
ZhuangZuMu == {"zhuang", "chu", "chong", "sheng", "si"} \* "莊初崇生俟"
QunXieSi == {"qun1", "xie1", "si"}                      \* "羣邪俟"

\* replacements.get(屬性, {}).get(值): the look-alike character suggested
Suggestion(shuxing, zhi) ==
    IF shuxing = "mu" /\ zhi = "niang2" THEN "niang1"        \* 娘 -> 孃
    ELSE IF shuxing = "mu" /\ zhi = "qun2" THEN "qun1"       \* 群 -> 羣
    ELSE IF shuxing = "yun" /\ zhi = "zhen3" THEN "zhen1"    \* 眞 -> 真
    ELSE IF shuxing = "yun" /\ zhi = "xin2" THEN "yin1"      \* 欣 -> 殷
    ELSE None

\* one round of the loop over (屬性, 值, nullable)
CheckShuXing(shuxing, zhi, nullable) ==
    IF zhi = None
    THEN IF ~nullable THEN <<"missing", shuxing>> ELSE NoError
    ELSE IF zhi \notin SuoYouSet[shuxing]
         THEN <<"unrecognized", shuxing, zhi, Suggestion(shuxing, zhi)>>
         ELSE NoError

\* the whole loop: the first attribute, in the order 母 呼 等 類 韻 聲, that is rejected
CheckSuoYou(mu, hu, deng, lei, yun, sheng) ==
    LET r1 == CheckShuXing("mu", mu, FALSE)
        r2 == CheckShuXing("hu", hu, TRUE)
        r3 == CheckShuXing("deng", deng, FALSE)
        r4 == CheckShuXing("lei", lei, TRUE)
        r5 == CheckShuXing("yun", yun, FALSE)
    IN  IF r1 # NoError THEN r1 ELSE IF r2 # NoError THEN r2
        ELSE IF r3 # NoError THEN r3 ELSE IF r4 # NoError THEN r4
        ELSE IF r5 # NoError THEN r5 ELSE CheckShuXing("sheng", sheng, FALSE)

\* if 聲 == "入" and 韻 in 陰聲韻
CheckRuSheng(yun, sheng) ==
    IF sheng = "ru" /\ yun \in YinShengYun THEN <<"unexpected yun ru sheng", yun>> ELSE NoError

\* for 搭配等, 搭配母 in 等母搭配.items()
CheckDengMu(mu, deng) ==
    IF \E i \in DOMAIN DengMuDaPei : mu \in DengMuDaPei[i].mu /\ deng \notin DengMuDaPei[i].deng
    THEN <<"unexpected mu deng", mu, deng>>
    ELSE NoError

\* for 搭配各等, 搭配各韻 in 等韻搭配.items(): the first bucket holding 韻 either
\* breaks out of the loop or rejects
CheckDengYun(mu, deng, yun) ==
    LET hits == {i \in DOMAIN DengYunDaPei : yun \in DengYunDaPei[i].yun}
    IN  IF hits = {} THEN NoError
        ELSE LET i == CHOOSE i \in hits : \A j \in hits : i <= j
                 gedeng == Range(DengYunDaPei[i].deng)
             IN  IF deng \in gedeng THEN NoError
                 ELSE IF "3" \in gedeng /\ deng = "4" /\ mu \in DuanZuMu THEN NoError
                 ELSE <<"unexpected yun deng", yun, deng>>

\* the 呼 block without the rejection of a 呼 on a 脣音 initial
CheckHuChunYinUnchecked(mu, hu, yun) ==
    IF mu \in BangZuMu
    THEN NoError
    ELSE IF yun \in HuYunDaPei.zhongli
    THEN IF hu # None THEN <<"unexpected hu for kai he zhong li yun">> ELSE NoError
    ELSE IF yun \in HuYunDaPei.kai /\ hu # "kai" THEN <<"unexpected yun hu", yun, hu>>
    ELSE IF yun \in HuYunDaPei.he /\ hu # "he" THEN <<"unexpected yun hu", yun, hu>>
    ELSE IF hu \notin {"kai", "he"} THEN <<"missing hu">> ELSE NoError

\* the 呼 block
CheckHu(mu, hu, yun) ==
    IF mu \in BangZuMu
    THEN IF hu # None THEN <<"unexpected hu for chun yin">> ELSE NoError
    ELSE IF yun \in HuYunDaPei.zhongli
    THEN IF hu # None THEN <<"unexpected hu for kai he zhong li yun">> ELSE NoError
    ELSE IF yun \in HuYunDaPei.kai \cup HuYunDaPei.he \cup HuYunDaPei.kaihe
    THEN LET expected == IF yun \in HuYunDaPei.kaihe THEN None
                         ELSE IF yun \in HuYunDaPei.kai THEN "kai"
                         ELSE IF yun \in HuYunDaPei.he THEN "he"
                         ELSE None
         IN  IF expected = None
             THEN IF hu \notin {"kai", "he"}
                  THEN <<"missing hu (should be kai or he)">> ELSE NoError
             ELSE IF hu = expected THEN NoError
             ELSE IF hu = None THEN <<"missing hu (should be)", expected>>
             ELSE <<"unexpected yun hu", yun, hu>>
    ELSE IF hu \notin {"kai", "he"} THEN <<"missing hu">> ELSE NoError

\* the 類 block without the rejection of a 類 outside 三等
CheckLeiFeiSanDengUnchecked(mu, deng, lei, yun) ==
    IF deng # "3" \/ mu \notin DunYinMu
    THEN IF deng = "3" /\ lei # None
         THEN <<"unexpected lei for rui yin sheng mu">> ELSE NoError
    ELSE LET dp == LeiDaPei(mu, yun)
         IN  IF dp.unknown THEN <<"unknown yun", yun>>
             ELSE IF lei = None THEN <<"missing lei", None>>
             ELSE IF lei \notin Range(dp.keyong) THEN <<"unexpected yun lei", yun, lei>>
             ELSE NoError

\* the 類 block; 類搭配 raises its own ValueError for a rime outside its table
CheckLei(mu, deng, lei, yun) ==
    IF deng # "3"
    THEN IF lei # None THEN <<"unexpected lei for fei san deng">> ELSE NoError
    ELSE IF mu \notin DunYinMu
    THEN IF lei # None THEN <<"unexpected lei for rui yin sheng mu">> ELSE NoError
    ELSE LET dp == LeiDaPei(mu, yun)
         IN  IF dp.unknown THEN <<"unknown yun", yun>>
             ELSE IF lei = None
             THEN <<"missing lei",
                    IF Len(dp.dianxing) = 1 /\ dp.dianxing # dp.keyong
                    THEN dp.dianxing[1] ELSE None>>
             ELSE IF lei \notin Range(dp.keyong)
             THEN IF mu = "yun" /\ lei = "A" THEN <<"unexpected yun mu A lei">>
                  ELSE <<"unexpected yun lei", yun, lei>>
             ELSE NoError

\* 脣音 rimes and 凡
CheckChunYin(mu, yun) ==
    IF mu \in BangZuMu
    THEN IF yun \in {"zhi4", "yu1", "yin1", "hen", "yan2"}     \* "之魚殷痕嚴"
         THEN <<"unexpected yun chun yin", yun>> ELSE NoError
    ELSE IF yun = "fan" THEN <<"unexpected fan yun fei chun yin">> ELSE NoError

\* 莊組
CheckZhuangZu(mu, hu, deng, yun) ==
    IF mu \in ZhuangZuMu
    THEN IF deng = "3" /\ yun = "qing1" THEN <<"unexpected yun zhuang zu", yun>>
         ELSE IF hu = "kai" /\ yun \in {"zhen1", "yin1"}
         THEN <<"unexpected yun kai kou zhuang zu", yun>>
         ELSE NoError
    ELSE IF yun = "zhen2" THEN <<"unexpected zhen yun fei zhuang zu">>
         ELSE IF yun = "geng1" /\ deng # "2" /\ mu \notin DunYinMu
         THEN <<"unexpected geng yun deng mu", deng, mu>>
         ELSE NoError

\* the fourth bucket of 等韻搭配: 等韻搭配["四"]
DengYun4 == DengYunDaPei[4].yun

\* marginal_tests: (kind, strict, condition, errmsg), in order
MarginalTests(mu, hu, deng, lei, yun) ==
    << [kind |-> "yang yun A lei", strict |-> TRUE,
        condition |-> (yun = "yang" /\ lei = "A"),
        errmsg |-> <<"yang yun A lei">>],
       [kind |-> "duan zu lei ge", strict |-> TRUE,
        condition |-> (mu \in DuanZuMu /\ (deng = "2" \/ (deng = "4" /\ yun \notin DengYun4))),
        errmsg |-> <<"yun deng mu", yun, deng, mu>>],
       [kind |-> "hai yun chun yin", strict |-> TRUE,
        condition |-> (yun = "hai" /\ mu \in BangZuMu),
        errmsg |-> <<"hai yun chun yin">>],
       [kind |-> "xia mu san deng", strict |-> TRUE,
        condition |-> (mu = "xia" /\ deng = "3"),
        errmsg |-> <<"xia mu san deng">>],
       [kind |-> "qun xie si mu fei san deng", strict |-> TRUE,
        condition |-> (mu \in QunXieSi /\ deng # "3"),
        errmsg |-> <<"mu deng", mu, deng>>],
       [kind |-> "yun mu kai kou", strict |-> FALSE,
        condition |-> (mu = "yun" /\ hu = "kai"
                       /\ yun \notin {"xiao3", "you2", "qin", "yan1", "yan2"}),  \* "宵幽侵鹽嚴"
        errmsg |-> <<"yun mu kai kou">>] >>

\* one round of the loop over marginal_tests without its second rejection
CheckMarginalOneWay(test, zhidingji) ==
    IF test.condition /\ test.kind \notin zhidingji
    THEN <<"unexpected marginal", test.errmsg, test.strict>>
    ELSE NoError

\* one round of the loop over marginal_tests
CheckMarginal(test, zhidingji) ==
    IF test.condition /\ test.kind \notin zhidingji
    THEN <<"unexpected marginal", test.errmsg, test.strict>>
    ELSE IF test.strict /\ ~test.condition /\ test.kind \in zhidingji
    THEN <<"expect marginal", test.kind>>
    ELSE NoError

\* the loop over marginal_tests, from its i-th round on: the first rejection
RECURSIVE MarginalLoop(_, _, _)
MarginalLoop(tests, zhidingji, i) ==
    IF i > Len(tests) THEN NoError
    ELSE LET e == CheckMarginal(tests[i], zhidingji)
         IN  IF e # NoError THEN e ELSE MarginalLoop(tests, zhidingji, i + 1)

\* the 邊緣地位 block
CheckBianYuan(mu, hu, deng, lei, yun, sheng, bianyuan) ==
    IF bianyuan = UNCHECKED \/ Concat(mu, hu, deng, lei, yun, sheng) \in YiZhiBianYuanDiWei
    THEN NoError
    ELSE LET zhidingji == Range(bianyuan)
             tests == MarginalTests(mu, hu, deng, lei, yun)
             known_kinds == {tests[i].kind : i \in DOMAIN tests}
             unknown == {i \in DOMAIN bianyuan : bianyuan[i] \notin known_kinds}
         IN  IF Cardinality(zhidingji) # Len(bianyuan)
             THEN <<"duplicates in bian yuan di wei zhong lei">>
             ELSE IF unknown # {}
             THEN <<"unknown type of marginal",
                    bianyuan[CHOOSE i \in unknown : \A j \in unknown : i <= j]>>
             ELSE MarginalLoop(tests, zhidingji, 1)

\* 驗證 with the 呼 block moved before the 韻-等 table
YanZhengHuFirst(mu, hu, deng, lei, yun, sheng, bianyuan) ==
    LET e1 == CheckSuoYou(mu, hu, deng, lei, yun, sheng)
        e2 == CheckRuSheng(yun, sheng)
        e3 == CheckDengMu(mu, deng)
        e4 == CheckDengYun(mu, deng, yun)
        e5 == CheckHu(mu, hu, yun)
        e6 == CheckLei(mu, deng, lei, yun)
        e7 == CheckChunYin(mu, yun)
        e8 == CheckZhuangZu(mu, hu, deng, yun)
        e9 == CheckBianYuan(mu, hu, deng, lei, yun, sheng, bianyuan)
    IN  IF e1 # NoError THEN e1 ELSE IF e2 # NoError THEN e2
        ELSE IF e3 # NoError THEN e3 ELSE IF e5 # NoError THEN e5
        ELSE IF e4 # NoError THEN e4 ELSE IF e6 # NoError THEN e6
        ELSE IF e7 # NoError THEN e7 ELSE IF e8 # NoError THEN e8
        ELSE e9

\* 音韻地位.驗證: NoError when the method returns, else the ValueError it raises
YanZheng(mu, hu, deng, lei, yun, sheng, bianyuan) ==
    LET e1 == CheckSuoYou(mu, hu, deng, lei, yun, sheng)
        e2 == CheckRuSheng(yun, sheng)
        e3 == CheckDengMu(mu, deng)
        e4 == CheckDengYun(mu, deng, yun)
        e5 == CheckHu(mu, hu, yun)
        e6 == CheckLei(mu, deng, lei, yun)
        e7 == CheckChunYin(mu, yun)
        e8 == CheckZhuangZu(mu, hu, deng, yun)
        e9 == CheckBianYuan(mu, hu, deng, lei, yun, sheng, bianyuan)
    IN  IF e1 # NoError THEN e1 ELSE IF e2 # NoError THEN e2
        ELSE IF e3 # NoError THEN e3 ELSE IF e4 # NoError THEN e4
        ELSE IF e5 # NoError THEN e5 ELSE IF e6 # NoError THEN e6
        ELSE IF e7 # NoError THEN e7 ELSE IF e8 # NoError THEN e8
        ELSE e9

----------------------------------------------------------------------------
(* the inputs and the constructor *)

\* the domains with values outside them: a look-alike variant character
\* (娘, 眞), an unknown label, or a missing value
RawMu == SuoYouSet.mu \cup {"niang2"}
RawHu == SuoYouSet.hu \cup {None}
RawDeng == SuoYouSet.deng \cup {None}
RawLei == SuoYouSet.lei \cup {None, "D"}
RawYun == SuoYouSet.yun \cup {"zhen3"}
RawSheng == SuoYouSet.sheng

Tuple(mu, hu, deng, lei, yun, sheng) ==
    [mu |-> mu, hu |-> hu, deng |-> deng, lei |-> lei, yun |-> yun, sheng |-> sheng]

\* 驗證 on a tuple
YanZhengT(t, bianyuan) == YanZheng(t.mu, t.hu, t.deng, t.lei, t.yun, t.sheng, bianyuan)

\* default_logger as the module is imported: StringLogger(), disabled and empty
NewLogger == [enable |-> FALSE, buffer |-> <<>>]

\* what no method has touched yet
Untouched ==
    /\ out = None /\ other = None /\ upper = None /\ lower = None
    /\ logger = NewLogger /\ wei = None /\ args = None /\ called = <<>>

\* 音韻地位.__init__(母, 呼, 等, 類, 韻, 聲, 邊緣地位種類): 驗證, then the six
\* fields are stored; a ValueError leaves no object
Construct(bianyuan) ==
    /\ pc = "start"
    /\ LET e == YanZhengT(arg, bianyuan)
       IN  /\ err' = e
           /\ self' = IF e = NoError THEN arg ELSE None
    /\ kinds' = bianyuan
    /\ pc' = "new"
    /\ UNCHANGED <<arg, out, other, upper, lower, logger, wei, args, called>>

\* 音韻地位(母, 呼, 等, 類, 韻, 聲): 邊緣地位種類 defaults to None, that is ()
NewDefault == Construct(<<>>)

\* 音韻地位(母, 呼, 等, 類, 韻, 聲, _UNCHECKED), as decode音韻編碼 constructs
NewUnchecked == Construct(UNCHECKED)

InitYanZheng ==
    /\ pc = "start"
    /\ \E mu \in RawMu, hu \in RawHu, deng \in RawDeng, lei \in RawLei,
          yun \in RawYun, sheng \in RawSheng :
          arg = Tuple(mu, hu, deng, lei, yun, sheng)
    /\ kinds = <<>>
    /\ self = None /\ err = NoError
    /\ Untouched

NextYanZheng == NewDefault \/ NewUnchecked

SpecYanZheng == InitYanZheng /\ [][NextYanZheng]_vars

\* the kinds 驗證 knows: the first components of marginal_tests
KnownKinds ==
    {"yang yun A lei", "duan zu lei ge", "hai yun chun yin", "xia mu san deng",
     "qun xie si mu fei san deng", "yun mu kai kou"}

\* a label that is no kind: 壞耶
HuaiYe == "huai ye"

\* the longest 邊緣地位種類 given to the constructor
MaxKinds == 2

\* the lists of at most MaxKinds labels
KindLists == UNION {[1..n -> KnownKinds \cup {HuaiYe}] : n \in 0..MaxKinds}

\* 驗證 without its 邊緣地位 block raises nothing for the tuple
PassesRules(t) == YanZhengT(t, UNCHECKED) = NoError

\* 音韻地位(母, 呼, 等, 類, 韻, 聲, 邊緣地位種類)
NewWith == pc = "start" /\ \E bianyuan \in KindLists : Construct(bianyuan)

InitBianYuan ==
    /\ pc = "start"
    /\ \E mu \in SuoYouSet.mu, hu \in SuoYouSet.hu \cup {None}, deng \in SuoYouSet.deng,
          lei \in SuoYouSet.lei \cup {None}, yun \in SuoYouSet.yun, sheng \in SuoYouSet.sheng :
          /\ PassesRules(Tuple(mu, hu, deng, lei, yun, sheng))
          /\ arg = Tuple(mu, hu, deng, lei, yun, sheng)
    /\ kinds = <<>>
    /\ self = None /\ err = NoError
    /\ Untouched

NextBianYuan == NewWith

SpecBianYuan == InitBianYuan /\ [][NextBianYuan]_vars

----------------------------------------------------------------------------
(* 描述, 簡略描述 and from描述 *)

\* a 等母搭配 of which every entry is empty
DengMuDaPeiEmpty(key) == {}

\* 等母搭配[key], the key given as its set of 等
DengMuDaPeiGet(key) ==
    DengMuDaPei[CHOOSE i \in DOMAIN DengMuDaPei : DengMuDaPei[i].deng = key].mu

\* 等韻搭配.get(key, ()), the key given as its sequence of 等
DengYunDaPeiGet(key) ==
    IF \E i \in DOMAIN DengYunDaPei : DengYunDaPei[i].deng = key
    THEN DengYunDaPei[CHOOSE i \in DOMAIN DengYunDaPei : DengYunDaPei[i].deng = key].yun
    ELSE {}

\* x or "": the characters a field contributes to a string
OrEmpty(x) == IF x = None THEN <<>> ELSE <<x>>

\* a 描述 that leaves the 類 out
MiaoShuWithoutLei(p) == <<p.mu>> \o OrEmpty(p.hu) \o <<p.deng, p.yun, p.sheng>>

\* 音韻地位.描述
MiaoShu(p) == <<p.mu>> \o OrEmpty(p.hu) \o <<p.deng>> \o OrEmpty(p.lei) \o <<p.yun, p.sheng>>

\* 音韻地位.簡略描述: the string, or the ValueError of 類搭配
JianLveMiaoShu(p) ==
    IF p.lei # None /\ LeiDaPei(p.mu, p.yun).unknown
    THEN [text |-> None, err |-> <<"unknown yun", p.yun>>]
    ELSE LET lei == IF p.lei # None /\ LeiDaPei(p.mu, p.yun).dianxing = <<p.lei>>
                    THEN None ELSE p.lei
             hu == IF p.hu = "he" /\ p.mu = "yun" THEN None
                   ELSE IF p.hu # None /\ p.yun \in HuYunDaPei[p.hu] THEN None
                   ELSE p.hu
             deng == IF p.deng = "3" /\ p.mu \in QunXieSi THEN None
                     ELSE IF \/ p.mu \in DengMuDaPeiGet({"3"})
                             \/ p.yun \notin (DengYunDaPeiGet(<<"1", "3">>)
                                              \cup DengYunDaPeiGet(<<"2", "3">>))
                     THEN None
                     ELSE p.deng
         IN  [text |-> <<p.mu>> \o OrEmpty(hu) \o OrEmpty(deng) \o OrEmpty(lei)
                        \o <<p.yun, p.sheng>>,
              err |-> NoError]

\* the ways the three optional groups of pattern描述 can take part in a match,
\* in the order a greedy match tries them: (呼 taken, 等 taken, 類 taken)
GreedyOrder ==
    << <<TRUE, TRUE, TRUE>>, <<TRUE, TRUE, FALSE>>, <<TRUE, FALSE, TRUE>>,
       <<TRUE, FALSE, FALSE>>, <<FALSE, TRUE, TRUE>>, <<FALSE, TRUE, FALSE>>,
       <<FALSE, FALSE, TRUE>>, <<FALSE, FALSE, FALSE>> >>

\* the string s matches pattern描述 with the optional groups taken as in g
MatchesAs(s, g) ==
    LET n1 == IF g[1] THEN 1 ELSE 0
        n2 == IF g[2] THEN 1 ELSE 0
        n3 == IF g[3] THEN 1 ELSE 0
    IN  /\ Len(s) = 3 + n1 + n2 + n3
        /\ s[1] \in SuoYouSet.mu
        /\ g[1] => s[2] \in SuoYouSet.hu
        /\ g[2] => s[2 + n1] \in SuoYouSet.deng
        /\ g[3] => s[2 + n1 + n2] \in SuoYouSet.lei
        /\ s[Len(s) - 1] \in SuoYouSet.yun
        /\ s[Len(s)] \in SuoYouSet.sheng

\* pattern描述.match(s): whether it matches and match.groups(), an optional
\* group that took nothing giving None
PatternMiaoShu(s) ==
    LET ways == {i \in DOMAIN GreedyOrder : MatchesAs(s, GreedyOrder[i])}
    IN  IF ways = {}
        THEN [matched |-> FALSE]
        ELSE LET g == GreedyOrder[CHOOSE i \in ways : \A j \in ways : i <= j]
                 n1 == IF g[1] THEN 1 ELSE 0
                 n2 == IF g[2] THEN 1 ELSE 0
             IN  [matched |-> TRUE,
                  mu |-> s[1],
                  hu |-> IF g[1] THEN s[2] ELSE None,
                  deng |-> IF g[2] THEN s[2 + n1] ELSE None,
                  lei |-> IF g[3] THEN s[2 + n1 + n2] ELSE None,
                  yun |-> s[Len(s) - 1],
                  sheng |-> s[Len(s)]]

\* from描述 with 簡略描述 set: the 呼 inferred for a description without one
InferHu(mu, yun) ==
    IF mu = "yun" /\ yun \in HuYunDaPei.kaihe THEN "he"
    ELSE IF yun \in HuYunDaPei.kai THEN "kai"
    ELSE IF yun \in HuYunDaPei.he THEN "he"
    ELSE None

\* from描述 with 簡略描述 set: the 等 inferred for a description without one
InferDeng(mu, yun) ==
    IF mu \in DengMuDaPeiGet({"3"}) \cup QunXieSi THEN "3"
    ELSE LET houxuan == {i \in DOMAIN SuoYou.deng : yun \in DengYunDaPeiGet(<<SuoYou.deng[i]>>)}
         IN  IF houxuan = {} THEN None
             ELSE LET deng == SuoYou.deng[CHOOSE i \in houxuan : \A j \in houxuan : i <= j]
                  IN  IF deng = "3" /\ mu \in DuanZuMu THEN "4" ELSE deng

\* from描述 without the constructor call: the six arguments it gives to cls, or
\* the ValueError it raises before
FromMiaoShuArgs(miaoshu, jianlve) ==
    LET \* 簡略描述 set, the 呼 and the 等 inferred: the 類, then the arguments
        JianLve(m, hu, deng, dp) ==
            IF m.lei = None /\ deng = "3" /\ m.mu \in DunYinMu /\ dp.unknown
            THEN [err |-> <<"unknown yun", m.yun>>]
            ELSE IF deng = None THEN [err |-> <<"deng is required in miao shu">>]
            ELSE [err |-> NoError,
                  t |-> Tuple(m.mu, hu, deng,
                              IF m.lei = None /\ deng = "3" /\ m.mu \in DunYinMu
                                 /\ Len(dp.dianxing) = 1
                              THEN dp.dianxing[1] ELSE m.lei,
                              m.yun, m.sheng)]
        \* after match = pattern描述.match(音韻描述)
        Match(m) ==
            IF ~m.matched THEN [err |-> <<"invalid miao shu", miaoshu>>]
            ELSE IF m.deng = None /\ ~jianlve THEN [err |-> <<"deng is required in miao shu">>]
            ELSE IF ~jianlve
            THEN [err |-> NoError, t |-> Tuple(m.mu, m.hu, m.deng, m.lei, m.yun, m.sheng)]
            ELSE JianLve(m,
                    IF m.hu = None /\ m.mu \notin BangZuMu THEN InferHu(m.mu, m.yun) ELSE m.hu,
                    IF m.deng = None THEN InferDeng(m.mu, m.yun) ELSE m.deng,
                    LeiDaPei(m.mu, m.yun))
    IN  Match(PatternMiaoShu(miaoshu))

\* 音韻地位.from描述(音韻描述, 簡略描述, 邊緣地位種類): the object or the ValueError
FromMiaoShu(miaoshu, jianlve, bianyuan) ==
    LET a == FromMiaoShuArgs(miaoshu, jianlve)
    IN  IF a.err # NoError THEN [obj |-> None, err |-> a.err]
        ELSE LET e == YanZhengT(a.t, bianyuan)
             IN  [obj |-> IF e = NoError THEN a.t ELSE None, err |-> e]

\* the sublists of 邊緣地位種類 in the order of marginal_tests, of at most
\* MaxKinds kinds
KindOrder ==
    <<"yang yun A lei", "duan zu lei ge", "hai yun chun yin", "xia mu san deng",
      "qun xie si mu fei san deng", "yun mu kai kou">>

KnownKindLists ==
    {K \in KindLists : \A i, j \in DOMAIN K :
        i < j => \E a, b \in DOMAIN KindOrder : a < b /\ KindOrder[a] = K[i] /\ KindOrder[b] = K[j]}

\* 音韻地位(母, 呼, 等, 類, 韻, 聲, 邊緣地位種類) with known kinds
NewKnown == pc = "start" /\ \E bianyuan \in KnownKindLists : Construct(bianyuan)

\* P.描述
GetMiaoShu ==
    /\ pc = "new" /\ err = NoError
    /\ out' = MiaoShu(self)
    /\ pc' = "miaoshu"
    /\ UNCHANGED <<arg, kinds, self, err, other, upper, lower, logger, wei, args, called>>

\* P.簡略描述
GetJianLveMiaoShu ==
    /\ pc = "new" /\ err = NoError
    /\ out' = JianLveMiaoShu(self).text
    /\ err' = JianLveMiaoShu(self).err
    /\ pc' = "jianlve"
    /\ UNCHANGED <<arg, kinds, self, other, upper, lower, logger, wei, args, called>>

\* 音韻地位.from描述(text, 簡略描述, K) on the string a property of P gave
CallFromMiaoShu(jianlve) ==
    /\ pc \in {"miaoshu", "jianlve"} /\ err = NoError
    /\ LET r == FromMiaoShu(out, jianlve, kinds)
       IN  other' = r.obj /\ err' = r.err
    /\ pc' = IF pc = "miaoshu"
             THEN (IF jianlve THEN "from miaoshu concise" ELSE "from miaoshu")
             ELSE (IF jianlve THEN "from jianlve concise" ELSE "from jianlve")
    /\ UNCHANGED <<arg, kinds, self, out, upper, lower, logger, wei, args, called>>

FromMiaoShuStrict == CallFromMiaoShu(FALSE)

FromMiaoShuConcise == CallFromMiaoShu(TRUE)

InitMiaoShu == InitBianYuan

NextMiaoShu ==
    NewKnown \/ GetMiaoShu \/ GetJianLveMiaoShu \/ FromMiaoShuStrict \/ FromMiaoShuConcise

SpecMiaoShu == InitMiaoShu /\ [][NextMiaoShu]_vars

----------------------------------------------------------------------------
(* 表達式 and 屬於 *)

\* a 表達式 that leaves the 類 field out
BiaoDaShiWithoutLei(p) ==
    LET huziduan == IF p.hu # None THEN <<p.hu, "kou", " ">>
                    ELSE <<"kai", "he", "zhong0", "li", " ">>
    IN  <<p.mu, "mu0", " ">> \o huziduan \o <<p.deng, "deng0", " ">>
            \o <<p.yun, "yun0", " ", p.sheng, "sheng0">>

\* 音韻地位.表達式
BiaoDaShi(p) ==
    LET huziduan == IF p.hu # None THEN <<p.hu, "kou", " ">>
                    ELSE <<"kai", "he", "zhong0", "li", " ">>
        leiziduan == IF p.lei # None THEN <<p.lei, "lei0", " ">>
                     ELSE <<"bu", "fen", "lei0", " ">>
    IN  <<p.mu, "mu0", " ">> \o huziduan \o <<p.deng, "deng0", " ">> \o leiziduan
            \o <<p.yun, "yun0", " ", p.sheng, "sheng0">>

\* 音韻地位.韻別
YunBie(p) ==
    IF p.sheng = "ru" THEN "ru"
    ELSE IF p.yun \in YinShengYun THEN "yin2" ELSE "yang"

\* 表達式屬性可取值, by the character that names the attribute
BiaoDaShiShuXingKeQuZhi ==
    [ mu0 |-> SuoYouSet.mu, deng0 |-> SuoYouSet.deng, lei0 |-> SuoYouSet.lei,
      yun0 |-> SuoYouSet.yun, sheng0 |-> SuoYouSet.sheng,
      yin0 |-> {"chun", "she", "chi", "ya", "hou2"},                 \* "脣舌齒牙喉"
      she0 |-> {"tong", "jiang", "zhi5", "yu3", "xie2", "zhen2", "shan2", "xiao4", "guo",
                "jia2", "dang", "geng3", "zeng", "liu", "shen", "xian3"},
                                                 \* "通江止遇蟹臻山效果假宕梗曾流深咸"
      zu0 |-> {"bang", "duan", "zhi1", "jing", "zhuang", "zhang", "jian", "ying"} ]
                                                                 \* "幫端知精莊章見影"

\* ch.isspace()
IsSpace(ch) == ch \in {" ", "\t", "\n"}

\* the characters that end a word of an expression
IsSpecial(ch) == ch \in {"(", ")", "!", "~", "&", "|"}

\* segment.replace("（", "(").replace("）", ")")
Normalize(segment) ==
    [i \in DOMAIN segment |->
        IF segment[i] = "fw(" THEN "(" ELSE IF segment[i] = "fw)" THEN ")" ELSE segment[i]]

\* the first index from j on where s has not the character ch
RECURSIVE RunEnd(_, _, _)
RunEnd(s, j, ch) == IF j <= Len(s) /\ s[j] = ch THEN RunEnd(s, j + 1, ch) ELSE j

\* the first index from i on where s has a space or a special character
RECURSIVE WordEnd(_, _)
WordEnd(s, i) ==
    IF i <= Len(s) /\ ~IsSpace(s[i]) /\ ~IsSpecial(s[i]) THEN WordEnd(s, i + 1) ELSE i

\* the while loop of _tokenize, from the index i on
RECURSIVE TokenizeFrom(_, _, _)
TokenizeFrom(s, i, tokens) ==
    IF i > Len(s) THEN tokens
    ELSE IF IsSpace(s[i]) THEN TokenizeFrom(s, i + 1, tokens)
    ELSE IF s[i] \in {"(", ")", "!", "~"} THEN TokenizeFrom(s, i + 1, Append(tokens, <<s[i]>>))
    ELSE IF s[i] \in {"&", "|"}
    THEN LET j == RunEnd(s, i, s[i])
         IN  TokenizeFrom(s, j, Append(tokens, SubSeq(s, i, j - 1)))
    ELSE LET j == WordEnd(s, i)
         IN  TokenizeFrom(s, j, Append(tokens, SubSeq(s, i, j - 1)))

\* _tokenize(segment)
Tokenize(segment) == TokenizeFrom(Normalize(segment), 1, <<>>)

\* str.lower() on one character
LowerChar(ch) ==
    CASE ch = "A" -> "a" [] ch = "B" -> "b" [] ch = "C" -> "c" [] ch = "D" -> "d"
      [] ch = "N" -> "n" [] ch = "O" -> "o" [] ch = "R" -> "r" [] ch = "T" -> "t"
      [] OTHER -> ch

\* raw.lower()
Lower(raw) == [i \in DOMAIN raw |-> LowerChar(raw[i])]

\* a classifier that takes 或 for 'and'
ClassifyTokenHuoAsAnd(raw) ==
    IF raw = <<"(">> THEN "("
    ELSE IF raw = <<")">> THEN ")"
    ELSE IF raw \in {<<"!">>, <<"~">>, <<"fei0">>} \/ Lower(raw) = <<"n", "o", "t">> THEN "not"
    ELSE IF raw \in {<<"qie">>, <<"huo">>} \/ Lower(raw) = <<"a", "n", "d">> \/ Range(raw) = {"&"}
    THEN "and"
    ELSE IF Lower(raw) = <<"o", "r">> \/ Range(raw) = {"|"} THEN "or"
    ELSE None

\* _classify_token(raw): the logical marker, or None for a token left literal
ClassifyToken(raw) ==
    IF raw = <<"(">> THEN "("
    ELSE IF raw = <<")">> THEN ")"
    ELSE IF raw \in {<<"!">>, <<"~">>, <<"fei0">>} \/ Lower(raw) = <<"n", "o", "t">> THEN "not"
    ELSE IF raw = <<"qie">> \/ Lower(raw) = <<"a", "n", "d">> \/ Range(raw) = {"&"} THEN "and"
    ELSE IF raw = <<"huo">> \/ Lower(raw) = <<"o", "r">> \/ Range(raw) = {"|"} THEN "or"
    ELSE None

\* attr_map.get(key)
AttrMap(obj, key) ==
    CASE key = "mu0" -> obj.mu
      [] key = "deng0" -> obj.deng
      [] key = "lei0" -> obj.lei
      [] key = "yun0" -> obj.yun
      [] key = "yin0" -> MuDaoYin[obj.mu]
      [] key = "she0" -> YunDaoShe[obj.yun]
      [] key = "zu0" -> MuDaoZu[obj.mu]
      [] key = "sheng0" -> obj.sheng

\* _eval_token(obj, token): the boolean, or the ValueError
EvalToken(obj, token) ==
    LET n == Len(token)
        yes(b) == [val |-> b, err |-> NoError]
    IN  IF n = 0 THEN yes(TRUE)
        ELSE IF n = 3 /\ token[1] \in {"yin2", "yang", "ru"} /\ token[2] = "sheng0"
                /\ token[3] = "yun0"
        THEN yes(YunBie(obj) = token[1])
        ELSE IF token = <<"ze", "sheng0">> THEN yes(obj.sheng # "ping")
        ELSE IF token = <<"shu0", "sheng0">> THEN yes(obj.sheng # "ru")
        ELSE IF n = 2 /\ token[1] \in {"kai", "he"} /\ token[2] = "kou"
        THEN yes(obj.hu = token[1])
        ELSE IF token = <<"kai", "he", "zhong0", "li">> THEN yes(obj.hu = None)
        ELSE IF token = <<"bu", "fen", "lei0">> THEN yes(obj.lei = None)
        ELSE IF n = 2 /\ token[1] \in {"qing1", "zhuo"} /\ token[2] = "yin0"
        THEN yes(MuDaoQingZhuo[obj.mu][2] = token[1])
        ELSE IF n = 2 /\ token[1] \in {"quan", "ci"} /\ token[2] \in {"qing1", "zhuo"}
        THEN yes(MuDaoQingZhuo[obj.mu] = token)
        ELSE IF token = <<"dun", "yin0">> THEN yes(obj.mu \in DunYinMu)
        ELSE IF token = <<"rui", "yin0">> THEN yes(obj.mu \notin DunYinMu)
        ELSE IF n >= 2 /\ token[n] \in DOMAIN BiaoDaShiShuXingKeQuZhi
        THEN LET values == SubSeq(token, 1, n - 1)
                 key == token[n]
                 possible == BiaoDaShiShuXingKeQuZhi[key]
                 invalid == SelectSeq(values, LAMBDA value : value \notin possible)
             IN  IF invalid # <<>> THEN [val |-> None, err |-> <<"unknown", key, invalid>>]
                 ELSE yes(AttrMap(obj, key) \in Range(values))
        ELSE [val |-> None, err |-> <<"unrecognized test condition", token>>]

\* the token 屬於 appends for the raw token: (marker, raw) or (boolean, raw)
MakeToken(obj, raw) ==
    IF ClassifyToken(raw) # None
    THEN [kind |-> "op", op |-> ClassifyToken(raw), raw |-> raw, err |-> NoError]
    ELSE LET r == EvalToken(obj, raw)
         IN  [kind |-> "bool", val |-> r.val, raw |-> raw, err |-> r.err]

\* end_token
EndToken == [kind |-> "end", raw |-> <<"end of expression">>, err |-> NoError]

\* peek(), the cursor counted from 1
Peek(tokens, cursor) == IF cursor <= Len(tokens) THEN tokens[cursor] ELSE EndToken

\* the cursor after read()
AfterRead(tokens, cursor) == IF cursor <= Len(tokens) THEN cursor + 1 ELSE cursor

IsOp(token, op) == token.kind = "op" /\ token.op = op

\* the number of "not" tokens from the cursor on
RECURSIVE NotRun(_, _)
NotRun(tokens, cursor) ==
    IF IsOp(Peek(tokens, cursor), "not") THEN 1 + NotRun(tokens, cursor + 1) ELSE 0

NoOperand == [kind |-> "none"]

RECURSIVE ParseOr(_, _, _)
RECURSIVE OrLoop(_, _, _)
RECURSIVE ParseAnd(_, _, _)
RECURSIVE AndLoop(_, _, _)
RECURSIVE ParseNot(_, _, _)

\* parse_not(required) at the cursor: the operand (NoOperand for None), the
\* cursor after it, or the ValueError
ParseNot(tokens, cursor, required) ==
    LET Wrap(negate, operand) ==
            IF negate THEN [kind |-> "not", operands |-> <<operand>>] ELSE operand
        \* after operand = parse_or(True): closing, closing_raw = read()
        Close(negate, inner) ==
            IF inner.err # NoError THEN inner
            ELSE IF ~IsOp(Peek(tokens, inner.cursor), ")")
            THEN [node |-> NoOperand, cursor |-> inner.cursor,
                  err |-> <<"expect ')', got", Peek(tokens, inner.cursor).raw>>]
            ELSE [node |-> Wrap(negate, inner.node),
                  cursor |-> AfterRead(tokens, inner.cursor), err |-> NoError]
        \* after the loop over nots tokens "not": token, raw = peek()
        Operand(nots, at, token) ==
            IF token.kind = "bool"
            THEN [node |-> Wrap(nots % 2 = 1, [kind |-> "bool", val |-> token.val]),
                  cursor |-> AfterRead(tokens, at), err |-> NoError]
            ELSE IF token.kind = "lazy"
            THEN [node |-> Wrap(nots % 2 = 1,
                                [kind |-> "lazy", id |-> token.id, inner |-> token.inner]),
                  cursor |-> AfterRead(tokens, at), err |-> NoError]
            ELSE IF IsOp(token, "(")
            THEN Close(nots % 2 = 1, ParseOr(tokens, AfterRead(tokens, at), TRUE))
            ELSE IF nots > 0 \/ required
            THEN [node |-> NoOperand, cursor |-> at,
                  err |-> <<"expect, got",
                            IF nots > 0 THEN "operand or '('" ELSE "expression", token.raw>>]
            ELSE [node |-> NoOperand, cursor |-> at, err |-> NoError]
        AfterNots(nots) == Operand(nots, cursor + nots, Peek(tokens, cursor + nots))
    IN  AfterNots(NotRun(tokens, cursor))

\* the while loop of parse_and
AndLoop(tokens, cursor, operands) ==
    LET Step(next) ==
            IF next.err # NoError
            THEN [operands |-> operands, cursor |-> next.cursor, err |-> next.err]
            ELSE IF next.node = NoOperand
            THEN [operands |-> operands, cursor |-> cursor, err |-> NoError]
            ELSE AndLoop(tokens, next.cursor, Append(operands, next.node))
    IN  Step(IF IsOp(Peek(tokens, cursor), "and")
             THEN ParseNot(tokens, AfterRead(tokens, cursor), TRUE)
             ELSE ParseNot(tokens, cursor, FALSE))

\* parse_and(required)
ParseAnd(tokens, cursor, required) ==
    LET Combine(rest) ==
            [node |-> IF rest.err # NoError THEN NoOperand
                      ELSE IF Len(rest.operands) = 1 THEN rest.operands[1]
                      ELSE [kind |-> "and", operands |-> rest.operands],
             cursor |-> rest.cursor, err |-> rest.err]
        Rest(first) ==
            IF first.err # NoError \/ first.node = NoOperand THEN first
            ELSE Combine(AndLoop(tokens, first.cursor, <<first.node>>))
    IN  Rest(ParseNot(tokens, cursor, required))

\* the while loop of parse_or
OrLoop(tokens, cursor, operands) ==
    LET Step(next) ==
            IF next.err # NoError
            THEN [operands |-> operands, cursor |-> next.cursor, err |-> next.err]
            ELSE OrLoop(tokens, next.cursor, Append(operands, next.node))
    IN  IF IsOp(Peek(tokens, cursor), "or")
        THEN Step(ParseAnd(tokens, AfterRead(tokens, cursor), TRUE))
        ELSE [operands |-> operands, cursor |-> cursor, err |-> NoError]

\* parse_or(required)
ParseOr(tokens, cursor, required) ==
    LET Combine(rest) ==
            [node |-> IF rest.err # NoError THEN NoOperand
                      ELSE IF Len(rest.operands) = 1 THEN rest.operands[1]
                      ELSE [kind |-> "or", operands |-> rest.operands],
             cursor |-> rest.cursor, err |-> rest.err]
        Rest(first) ==
            IF first.err # NoError \/ first.node = NoOperand THEN first
            ELSE Combine(OrLoop(tokens, first.cursor, <<first.node>>))
    IN  Rest(ParseAnd(tokens, cursor, required))

RECURSIVE EvalOperand(_)
RECURSIVE AllFrom(_, _)
RECURSIVE AnyFrom(_, _)

\* all(eval_operand(item) for item in operands), from the i-th item on
AllFrom(operands, i) ==
    IF i > Len(operands) THEN TRUE
    ELSE IF ~EvalOperand(operands[i]) THEN FALSE
    ELSE AllFrom(operands, i + 1)

\* any(eval_operand(item) for item in operands), from the i-th item on
AnyFrom(operands, i) ==
    IF i > Len(operands) THEN FALSE
    ELSE IF EvalOperand(operands[i]) THEN TRUE
    ELSE AnyFrom(operands, i + 1)

\* eval_operand(operand)
EvalOperand(operand) ==
    IF operand.kind = "bool" THEN operand.val
    ELSE IF operand.kind = "not" THEN ~EvalOperand(operand.operands[1])
    ELSE IF operand.kind = "and" THEN AllFrom(operand.operands, 1)
    ELSE AnyFrom(operand.operands, 1)

\* 屬於 without the check of the tokens left after the expression
ShuYuTrailing(obj, biaodashi) ==
    LET Result(tokens, tree) ==
            IF tree.err # NoError THEN [val |-> None, err |-> tree.err]
            ELSE [val |-> EvalOperand(tree.node), err |-> NoError]
        Parse(tokens, bad) ==
            IF bad # {}
            THEN [val |-> None, err |-> tokens[CHOOSE i \in bad : \A j \in bad : i <= j].err]
            ELSE IF tokens = <<>> THEN [val |-> None, err |-> <<"empty expression">>]
            ELSE Result(tokens, ParseOr(tokens, 1, TRUE))
        Tokens(tokens) == Parse(tokens, {i \in DOMAIN tokens : tokens[i].err # NoError})
        Raws(raws) == Tokens([i \in DOMAIN raws |-> MakeToken(obj, raws[i])])
    IN  Raws(Tokenize(biaodashi))

\* 屬於 that evaluates a condition only after the expression has parsed
ShuYuParseFirst(obj, biaodashi) ==
    LET Result(tokens, expr, bad) ==
            IF expr.err # NoError THEN [val |-> None, err |-> expr.err]
            ELSE IF expr.cursor <= Len(tokens)
            THEN [val |-> None, err |-> <<"unexpected trailing tokens">>]
            ELSE IF bad # {}
            THEN [val |-> None, err |-> tokens[CHOOSE i \in bad : \A j \in bad : i <= j].err]
            ELSE [val |-> EvalOperand(expr.node), err |-> NoError]
        Tokens(tokens) ==
            IF tokens = <<>> THEN [val |-> None, err |-> <<"empty expression">>]
            ELSE Result(tokens, ParseOr(tokens, 1, TRUE),
                        {i \in DOMAIN tokens : tokens[i].err # NoError})
        Raws(raws) == Tokens([i \in DOMAIN raws |-> MakeToken(obj, raws[i])])
    IN  Raws(Tokenize(biaodashi))

\* 音韻地位.屬於(表達式) for one string and no 參數: the boolean, or the ValueError
ShuYu(obj, biaodashi) ==
    LET \* expr = parse_or(True), the trailing tokens, eval_operand(expr)
        Result(tokens, expr) ==
            IF expr.err # NoError THEN [val |-> None, err |-> expr.err]
            ELSE IF expr.cursor <= Len(tokens)
            THEN [val |-> None, err |-> <<"unexpected trailing tokens">>]
            ELSE [val |-> EvalOperand(expr.node), err |-> NoError]
        \* the tokens are built first: the first ValueError of _eval_token is raised
        Parse(tokens, bad) ==
            IF bad # {}
            THEN [val |-> None, err |-> tokens[CHOOSE i \in bad : \A j \in bad : i <= j].err]
            ELSE IF tokens = <<>> THEN [val |-> None, err |-> <<"empty expression">>]
            ELSE Result(tokens, ParseOr(tokens, 1, TRUE))
        Tokens(tokens) == Parse(tokens, {i \in DOMAIN tokens : tokens[i].err # NoError})
        Raws(raws) == Tokens([i \in DOMAIN raws |-> MakeToken(obj, raws[i])])
    IN  Raws(Tokenize(biaodashi))

\* the positions that differ from p in at most one field
Neighbours(p) ==
    {q \in {[p EXCEPT !.mu = x] : x \in SuoYouSet.mu}
           \cup {[p EXCEPT !.hu = x] : x \in SuoYouSet.hu \cup {None}}
           \cup {[p EXCEPT !.deng = x] : x \in SuoYouSet.deng}
           \cup {[p EXCEPT !.lei = x] : x \in SuoYouSet.lei \cup {None}}
           \cup {[p EXCEPT !.yun = x] : x \in SuoYouSet.yun}
           \cup {[p EXCEPT !.sheng = x] : x \in SuoYouSet.sheng} : PassesRules(q)}

\* P.表達式
GetBiaoDaShi ==
    /\ pc = "new" /\ err = NoError
    /\ out' = BiaoDaShi(self)
    /\ pc' = "biaodashi"
    /\ UNCHANGED <<arg, kinds, self, err, other, upper, lower, logger, wei, args, called>>

\* Q.屬於(P.表達式), for a position Q that differs from P in at most one field
CallShuYu ==
    /\ pc = "biaodashi"
    /\ \E q \in Neighbours(self) :
          LET Returned(r) == out' = r.val /\ err' = r.err
          IN  other' = q /\ Returned(ShuYu(q, out))
    /\ pc' = "shuyu"
    /\ UNCHANGED <<arg, kinds, self, upper, lower, logger, wei, args, called>>

\* the rime of the positions of every 聲 that 屬於 is tried on
ShuYuYun == "dong1"

InitShuYu ==
    /\ InitBianYuan
    /\ arg.sheng = "ping" \/ arg.yun = ShuYuYun

NextShuYu == NewUnchecked \/ GetBiaoDaShi \/ CallShuYu

SpecShuYu == InitShuYu /\ [][NextShuYu]_vars

----------------------------------------------------------------------------
(* 反切 *)
(* A message of the trace is the sequence of an ASCII rendering of its fixed *)
(* text and the values that the f-string interpolates.                       *)

\* 重紐韻 = 支脂祭真仙宵清侵鹽
ChongNiuYun == {"zhi2", "zhi3", "ji", "zhen1", "xian2", "xiao3", "qing1", "qin", "yan1"}

\* a log that records whatever enable is
LogAllAlways(lg, msgs) == [lg EXCEPT !.buffer = @ \o msgs]

\* StringLogger.log, once for each message of msgs in order
LogAll(lg, msgs) == IF lg.enable THEN [lg EXCEPT !.buffer = @ \o msgs] ELSE lg

\* generate呼 without the rule of the 云母
GenerateHuWithoutYunMu(mu, zu, yun, shangzihu, xiazihu, xiazizu) ==
    IF zu = "bang" \/ yun \in HuYunDaPei.zhongli THEN [hu |-> <<None>>, log |-> <<>>]
    ELSE IF yun \in HuYunDaPei.kai THEN [hu |-> <<"kai">>, log |-> <<>>]
    ELSE IF yun \in HuYunDaPei.he THEN [hu |-> <<"he">>, log |-> <<>>]
    ELSE IF shangzihu = "kai" /\ xiazihu = "kai" THEN [hu |-> <<"kai">>, log |-> <<>>]
    ELSE IF xiazihu = "he" THEN [hu |-> <<"he">>, log |-> <<>>]
    ELSE IF shangzihu = "he" /\ xiazizu = "bang" THEN [hu |-> <<"he">>, log |-> <<>>]
    ELSE [hu |-> <<"kai", "he">>, log |-> <<>>]

\* generate呼: the list of 呼, and the messages it logs
GenerateHu(mu, zu, yun, shangzihu, xiazihu, xiazizu) ==
    IF zu = "bang" \/ yun \in HuYunDaPei.zhongli
    THEN [hu |-> <<None>>, log |-> <<>>]
    ELSE IF yun \in HuYunDaPei.kai
    THEN [hu |-> <<"kai">>, log |-> << <<"bei qie zi wei yun, yun wei kai kou", yun>> >>]
    ELSE IF yun \in HuYunDaPei.he
    THEN [hu |-> <<"he">>, log |-> << <<"bei qie zi wei yun, yun wei he kou", yun>> >>]
    ELSE IF mu = "yun"
    THEN [hu |-> <<"he">>, log |-> << <<"bei qie zi wei yun mu, yun mu wei he kou">> >>]
    ELSE IF shangzihu = "kai" /\ xiazihu = "kai"
    THEN [hu |-> <<"kai">>, log |-> << <<"fan qie shang xia zi jun wei kai kou">> >>]
    ELSE IF xiazihu = "he"
    THEN [hu |-> <<"he">>, log |-> << <<"fan qie xia zi wei he kou">> >>]
    ELSE IF shangzihu = "he" /\ xiazizu = "bang"
    THEN [hu |-> <<"he">>, log |-> << <<"fan qie shang zi wei he kou, xia zi wei bang zu">> >>]
    ELSE [hu |-> <<"kai", "he">>, log |-> << <<"wu fa que ding bei qie zi de hu">> >>]

\* RuntimeError("Unreachable state for 等推導")
Unreachable == <<"RuntimeError", "Unreachable state for deng tui dao">>

\* generate等: the list of 等, the messages it logs, and the RuntimeError it raises
GenerateDeng(mu, yun, shangzideng, xiazideng) ==
    LET fixed(deng) ==
            [deng |-> <<deng>>, err |-> NoError,
             log |-> << <<"bei qie zi wei yun, yun wei deng", yun, deng>> >>]
        fei3 == <<"fan qie shang xia zi jun fei san deng">>
        yun13 == <<"bei qie zi wei yun, yun wei yi deng huo san deng", yun>>
        yun23 == <<"bei qie zi wei yun, yun wei er deng huo san deng", yun>>
    IN  IF yun \in DengYunDaPeiGet(<<"1">>) THEN fixed("1")
        ELSE IF yun \in DengYunDaPeiGet(<<"2">>) THEN fixed("2")
        ELSE IF yun \in DengYunDaPeiGet(<<"3">>) THEN fixed("3")
        ELSE IF yun \in DengYunDaPeiGet(<<"4">>) THEN fixed("4")
        ELSE IF xiazideng = "3"
        THEN [deng |-> <<"3">>, err |-> NoError, log |-> << <<"fan qie xia zi wei san deng">> >>]
        ELSE IF shangzideng # "3" /\ xiazideng # "3"
        THEN IF yun \in DengYunDaPeiGet(<<"1", "3">>)
             THEN [deng |-> <<"1">>, err |-> NoError,
                   log |-> <<fei3, <<"yun wei yi deng huo san deng, er fei san deng", yun>> >>]
             ELSE IF yun \in DengYunDaPeiGet(<<"2", "3">>)
             THEN [deng |-> <<"2">>, err |-> NoError,
                   log |-> <<fei3, <<"yun wei er deng huo san deng, er fei san deng", yun>> >>]
             ELSE [deng |-> None, err |-> Unreachable, log |-> <<fei3>>]
        ELSE IF yun \in DengYunDaPeiGet(<<"1", "3">>)
        THEN IF mu \in DengMuDaPeiGet({"2", "3"}) \/ mu \in DengMuDaPeiGet({"3"})
             THEN [deng |-> <<"3">>, err |-> NoError,
                   log |-> <<yun13, <<"mu bu ke neng wei yi deng", mu>> >>]
             ELSE IF mu \in DengMuDaPeiGet({"1", "2", "4"})
             THEN [deng |-> <<"1">>, err |-> NoError,
                   log |-> <<yun13, <<"mu bu ke neng wei san deng, gu wei yi deng", mu>> >>]
             ELSE [deng |-> <<"1", "3">>, err |-> NoError,
                   log |-> <<yun13, <<"wu fa que ding deng, yi deng huo san deng">> >>]
        ELSE IF yun \in DengYunDaPeiGet(<<"2", "3">>)
        THEN IF mu \in DengMuDaPeiGet({"1", "3", "4"}) \/ mu \in DengMuDaPeiGet({"3"})
             THEN [deng |-> <<"3">>, err |-> NoError,
                   log |-> <<yun23, <<"mu bu ke neng wei er deng", mu>> >>]
             ELSE IF mu \in DengMuDaPeiGet({"1", "2", "4"})
             THEN [deng |-> <<"2">>, err |-> NoError,
                   log |-> <<yun23, <<"mu bu ke neng wei san deng, gu wei er deng", mu>> >>]
             ELSE [deng |-> <<"2", "3">>, err |-> NoError,
                   log |-> <<yun23, <<"wu fa que ding deng, er deng huo san deng">> >>]
        ELSE [deng |-> None, err |-> Unreachable, log |-> <<>>]

\* a 解釋 of None: no message
NoJieShi == <<>>

\* 類data(類, 解釋)
LeiData(lei, jieshi) == [lei |-> lei, jieshi |-> jieshi]

\* "A類 或 以母 或 精組"
ALeiHuoYiMuHuoJingZu ==
    <<"A", "lei0", " ", "huo", " ", "yi2", "mu0", " ", "huo", " ", "jing", "zu0">>

\* "B類 或 云母"
BLeiHuoYunMu == <<"B", "lei0", " ", "huo", " ", "yun", "mu0">>

\* rawGenerate類
RawGenerateLei(xiazi, mu, zu, yun, shangzilei, hu, deng) ==
    IF deng # "3" \/ mu \notin DunYinMu THEN LeiData(None, NoJieShi)
    ELSE IF yun = "you2"
    THEN IF zu = "bang" THEN LeiData("B", <<"you yun, bang zu, gu wei B lei">>)
         ELSE LeiData("A", <<"you yun, fei bang zu, gu wei A lei">>)
    ELSE IF yun = "zheng"
    THEN IF zu = "bang" \/ hu = "he"
         THEN LeiData("B", <<"zheng yun, bang zu huo he kou, gu wei B lei">>)
         ELSE LeiData("C", <<"zheng yun, fei bang zu huo he kou, gu wei C lei">>)
    ELSE IF yun = "geng1" THEN LeiData("B", <<"geng yun, gu wei B lei">>)
    ELSE IF yun \notin ChongNiuYun THEN LeiData("C", <<"fei chong niu yun, gu wei C lei">>)
    ELSE IF mu = "yun" THEN LeiData("B", <<"yun mu, gu wei B lei">>)
    ELSE IF shangzilei = "A" THEN LeiData("A", <<"fan qie shang zi wei A lei">>)
    ELSE IF shangzilei = "B" THEN LeiData("B", <<"fan qie shang zi wei B lei">>)
    ELSE IF ShuYu(xiazi, ALeiHuoYiMuHuoJingZu).val
    THEN LeiData("A", <<"fan qie xia zi wei A lei, yi mu huo jing zu">>)
    ELSE IF ShuYu(xiazi, BLeiHuoYunMu).val
    THEN LeiData("B", <<"fan qie xia zi wei B lei huo yun mu">>)
    ELSE LeiData("AB", <<"wu fa que ding lei, A lei huo B lei">>)

\* the items of the sequences of a sequence, the last sequence first
RECURSIVE FlattenBackFrom(_, _)
FlattenBackFrom(seqs, i) ==
    IF i > Len(seqs) THEN <<>> ELSE FlattenBackFrom(seqs, i + 1) \o seqs[i]

\* the items of the sequences of a sequence, in order, from the i-th on
RECURSIVE FlattenFrom(_, _)
FlattenFrom(seqs, i) == IF i > Len(seqs) THEN <<>> ELSE seqs[i] \o FlattenFrom(seqs, i + 1)

\* the 韻 of the 下字 with the 平聲, whatever its 聲
XiaZiYunShengPing(xiazi) == [yun |-> xiazi.yun, sheng |-> "ping"]

\* 韻 = 下字音韻地位.韻 and 聲 = 下字音韻地位.聲
XiaZiYunSheng(xiazi) == [yun |-> xiazi.yun, sheng |-> xiazi.sheng]

\* the two loops "for 呼 in 所有呼: for 等 in 所有等": for every pair in order
\* its 條件, its 決策 and its 類列表
FanQieTiaoJian(shangzi, xiazi, suoyouhu, suoyoudeng) ==
    LET nh == Len(suoyouhu)
        nd == Len(suoyoudeng)
        Item(hu, deng, juece) ==
            [hu |-> hu, deng |-> deng,
             tiaojian |-> IF nh > 1 /\ nd > 1 THEN <<"dang hu wei, deng wei", hu, deng>>
                          ELSE IF nh > 1 THEN <<"dang hu wei", hu>>
                          ELSE IF nd > 1 THEN <<"dang deng wei", deng>>
                          ELSE <<>>,
             jieshi |-> juece.jieshi,
             leiliebiao |-> IF juece.lei = "AB" THEN <<"A", "B">> ELSE <<juece.lei>>]
        Pair(hu, deng) ==
            Item(hu, deng,
                 RawGenerateLei(xiazi, shangzi.mu, MuDaoZu[shangzi.mu],
                                XiaZiYunSheng(xiazi).yun, shangzi.lei, hu, deng))
    IN  [k \in 1..(nh * nd) |->
            Pair(suoyouhu[((k - 1) \div nd) + 1], suoyoudeng[((k - 1) % nd) + 1])]

\* the tuples (母, 呼, 等, 類, 韻, 聲) that the loops hand to the constructor, in
\* order, given the 條件 tj of the pairs of 呼 and 等
TiaoJianCandidates(shangzi, xiazi, tj) ==
    LET ys == XiaZiYunSheng(xiazi)
    IN  FlattenFrom([k \in DOMAIN tj |->
                        [i \in DOMAIN tj[k].leiliebiao |->
                            Tuple(shangzi.mu, tj[k].hu, tj[k].deng, tj[k].leiliebiao[i],
                                  ys.yun, ys.sheng)]], 1)

\* the tuples that 執行反切(上字音韻地位, 下字音韻地位) hands to the constructor
FanQieCandidates(shangzi, xiazi) ==
    LET mu == shangzi.mu
        ys == XiaZiYunSheng(xiazi)
        suoyouhu == GenerateHu(mu, MuDaoZu[mu], ys.yun, shangzi.hu, xiazi.hu,
                               MuDaoZu[xiazi.mu]).hu
        suoyoudeng == GenerateDeng(mu, ys.yun, shangzi.deng, xiazi.deng).deng
    IN  TiaoJianCandidates(shangzi, xiazi,
                           FanQieTiaoJian(shangzi, xiazi, suoyouhu, suoyoudeng))

\* a constructor that accepts every tuple
TryNewAcceptAll(t) == NoError

\* try: 音韻地位(母, 呼, 等, 類, 韻, 聲): the ValueError caught, or NoError
TryNew(t) == YanZhengT(t, <<>>)

\* the message appended to 忽略 for the tuple t and the ValueError e
HuLveMsg(t, e) ==
    <<"hu lve wu xiao de yin yun di wei, yuan yin",
      Concat(t.mu, t.hu, t.deng, t.lei, t.yun, t.sheng), e>>

\* every 解釋 logged after its 條件, whether or not they are all the same
JieShiLogEach(tj) ==
    LET given == SelectSeq(tj, LAMBDA x : x.jieshi # NoJieShi)
    IN  [i \in DOMAIN given |-> given[i].tiaojian \o given[i].jieshi]

\* the messages with which 執行反切 consolidates the 條件_解釋
JieShiLog(tj) ==
    LET jieshijihe == {tj[k].jieshi : k \in DOMAIN tj}
        given == SelectSeq(tj, LAMBDA x : x.jieshi # NoJieShi)
    IN  IF tj = <<>> THEN <<>>
        ELSE IF Cardinality(jieshijihe) = 1
        THEN IF tj[1].jieshi # NoJieShi THEN <<tj[1].jieshi>> ELSE <<>>
        ELSE [i \in DOMAIN given |-> given[i].tiaojian \o given[i].jieshi]

\* 執行反切(上字音韻地位, 下字音韻地位): the list it returns, the messages it
\* logs, and the error it lets through
ZhiXingFanQie(shangzi, xiazi) ==
    LET mu == shangzi.mu
        ys == XiaZiYunSheng(xiazi)
        head == << <<"fan qie shang zi wei mu", mu>>,
                   <<"fan qie xia zi wei yun sheng", ys.yun, ys.sheng>> >>
        HuLve(dropped) ==
            [i \in DOMAIN dropped |-> HuLveMsg(dropped[i], TryNew(dropped[i]))]
        Results(h, d, tj, candidates) ==
            [results |-> SelectSeq(candidates, LAMBDA t : TryNew(t) = NoError),
             err |-> NoError,
             log |-> head \o h.log \o d.log \o JieShiLog(tj)
                        \o HuLve(SelectSeq(candidates, LAMBDA t : TryNew(t) # NoError))]
        Loops(h, d, tj) == Results(h, d, tj, TiaoJianCandidates(shangzi, xiazi, tj))
        Generated(h, d) ==
            IF d.err # NoError
            THEN [results |-> None, err |-> d.err, log |-> head \o h.log \o d.log]
            ELSE Loops(h, d, FanQieTiaoJian(shangzi, xiazi, h.hu, d.deng))
    IN  Generated(GenerateHu(mu, MuDaoZu[mu], ys.yun, shangzi.hu, xiazi.hu, MuDaoZu[xiazi.mu]),
                  GenerateDeng(mu, ys.yun, shangzi.deng, xiazi.deng))

\* the 韻 of the 上字 that 執行反切 is tried on, all of them in the 入聲
FanQieShangZiYun == {"dong1", "deng"}

\* the 母 and the 聲 of the 下字 that 執行反切 is tried on, of every 韻
FanQieXiaZiMu == {"bang", "jing", "jian", "xia", "yun", "yi2"}
FanQieXiaZiSheng == {"ping", "ru"}

\* the valid positions among mu x hu x deng x lei x yun x sheng
ValidPositions(mu, hu, deng, lei, yun, sheng) ==
    LET all == {Tuple(m, h, d, l, y, s) :
                    m \in mu, h \in hu, d \in deng, l \in lei, y \in yun, s \in sheng}
    IN  {t \in all : PassesRules(t)}

FanQieShangZi ==
    ValidPositions(SuoYouSet.mu, SuoYouSet.hu \cup {None}, SuoYouSet.deng,
                   SuoYouSet.lei \cup {None}, FanQieShangZiYun, {"ru"})

FanQieXiaZi ==
    ValidPositions(FanQieXiaZiMu, SuoYouSet.hu \cup {None}, SuoYouSet.deng,
                   SuoYouSet.lei \cup {None}, SuoYouSet.yun, FanQieXiaZiSheng)

\* default_logger.enable = True
EnableLogger ==
    /\ pc = "start" /\ ~logger.enable
    /\ logger' = [logger EXCEPT !.enable = TRUE]
    /\ UNCHANGED <<pc, arg, kinds, self, err, out, other, upper, lower, wei, args, called>>

\* 執行反切(upper, lower)
CallZhiXingFanQie ==
    /\ pc = "start"
    /\ LET Returned(r) ==
               /\ out' = r.results
               /\ err' = r.err
               /\ logger' = LogAll(logger, r.log)
       IN  Returned(ZhiXingFanQie(upper, lower))
    /\ pc' = "fanqie"
    /\ UNCHANGED <<arg, kinds, self, other, upper, lower, wei, args, called>>

InitFanQie ==
    /\ pc = "start"
    /\ upper \in FanQieShangZi
    /\ lower \in FanQieXiaZi
    /\ arg = None /\ kinds = <<>> /\ self = None /\ err = NoError
    /\ out = None /\ other = None
    /\ logger = NewLogger /\ wei = None /\ args = None /\ called = <<>>

NextFanQie == EnableLogger \/ CallZhiXingFanQie

SpecFanQie == InitFanQie /\ [][NextFanQie]_vars

----------------------------------------------------------------------------
(* 韻鏡 *)
(* A 韻鏡位置 is the record [zhuanhao, shangwei, youwei] of its 轉號, 上位 and *)
(* 右位; an error of the 韻鏡 module is the sequence of the ASCII rendering  *)
(* of its message and the values the message interpolates.                 *)

\* 轉呼: the 呼 of each 轉, indexed by 轉號 (None for the first three)
ZhuanHu ==
    <<None, None, None, "kai", "he", "kai", "he", "kai", "kai", "he", "kai", "he", "kai",
      "he", "kai", "he", "kai", "he", "kai", "he", "kai", "he", "kai", "he", "kai", "kai",
      "kai", "he", "kai", "he", "kai", "he", "kai", "he", "kai", "he", "kai", "kai", "kai",
      "kai", "he", "kai", "he">>

\* 母2idx = 幫滂並明端透定泥知徹澄孃見溪羣疑精清從心邪章昌船書常莊初崇生俟影曉匣云以來日
Mu2Idx ==
    <<"bang", "pang", "bing", "ming", "duan", "tou", "ding", "ni", "zhi1", "che", "cheng",
      "niang1", "jian", "xi", "qun1", "yi1", "jing", "qing1", "cong", "xin1", "xie1",
      "zhang", "chang1", "chuan", "shu", "chang2", "zhuang", "chu", "chong", "sheng", "si",
      "ying", "xiao1", "xia", "yun", "yi2", "lai", "ri">>

\* 母idx2右位
MuIdx2YouWei ==
    <<1, 2, 3, 4, 5, 6, 7, 8, 5, 6, 7, 8, 9, 10, 11, 12, 13, 14, 15, 16, 17, 13, 14, 15, 16,
      17, 13, 14, 15, 16, 17, 18, 19, 20, 21, 21, 22, 23>>

\* 聲lst = 平上去入 and 等lst = 一二三四
ShengLst == <<"ping", "shang", "qu", "ru">>
DengLst == <<"1", "2", "3", "4">>

\* the index of x in the sequence s (str.index, counted from 1)
IndexOf(s, x) == CHOOSE i \in DOMAIN s : s[i] = x

\* 轉號上位右位2韻: the 韻 it returns, or the ValueError it raises
ZhuanHaoShangWeiYouWei2Yun(zhuanhao, shangwei, youwei) ==
    LET rawsheng == ShengLst[((shangwei - 1) \div 4) + 1]
        yunjingdeng == ((shangwei - 1) % 4) + 1
        ischiyin == 12 < youwei /\ youwei <= 17
        Ok(yun) == [yun |-> yun, err |-> NoError]
        Bad(msg) == [yun |-> None, err |-> msg]
        InvalidDeng == Bad(<<"invalid yun jing deng">>)
    IN  CASE zhuanhao = 1 -> Ok("dong1")
          [] zhuanhao = 2 -> IF yunjingdeng = 1 THEN Ok("dong2") ELSE Ok("zhong")
          [] zhuanhao = 3 -> Ok("jiang")
          [] zhuanhao \in {4, 5} -> Ok("zhi2")
          [] zhuanhao \in {6, 7} -> Ok("zhi3")
          [] zhuanhao = 8 -> Ok("zhi4")
          [] zhuanhao \in {9, 10} -> IF rawsheng = "ru" THEN Ok("fei") ELSE Ok("wei")
          [] zhuanhao = 11 -> Ok("yu1")
          [] zhuanhao = 12 -> IF yunjingdeng = 1 THEN Ok("mo") ELSE Ok("yu2")
          [] zhuanhao = 13 ->
                IF rawsheng = "ru" THEN Ok("guai")
                ELSE IF yunjingdeng = 1 THEN Ok("hai")
                ELSE IF yunjingdeng = 2 THEN Ok("jie")
                ELSE IF yunjingdeng = 4 THEN Ok("qi")
                ELSE IF rawsheng = "qu" THEN Ok("ji")
                ELSE Ok("hai")
          [] zhuanhao = 14 ->
                IF rawsheng = "ru" THEN Ok("guai")
                ELSE IF yunjingdeng = 1 THEN Ok("hui")
                ELSE IF yunjingdeng = 2 THEN Ok("jie")
                ELSE IF yunjingdeng = 4 THEN Ok("qi")
                ELSE IF yunjingdeng = 3 /\ rawsheng = "qu" THEN Ok("ji")
                ELSE Bad(<<"invalid combination zhuan 14 yun jing san deng", rawsheng>>)
          [] zhuanhao \in {15, 16} ->
                IF yunjingdeng = 2 THEN Ok("jia1")
                ELSE IF rawsheng = "qu" /\ yunjingdeng = 1 THEN Ok("tai")
                ELSE IF rawsheng = "qu" /\ yunjingdeng = 4 THEN Ok("ji")
                ELSE Bad(<<"invalid zhuan 15/16 combination">>)
          [] zhuanhao = 17 ->
                IF yunjingdeng = 1 THEN Ok("hen")
                ELSE IF yunjingdeng \in {3, 4} THEN Ok("zhen1")
                ELSE IF yunjingdeng = 2 THEN Ok("zhen2")
                ELSE InvalidDeng
          [] zhuanhao = 18 -> IF yunjingdeng = 1 THEN Ok("hun") ELSE Ok("zhen1")
          [] zhuanhao = 19 -> Ok("yin1")
          [] zhuanhao = 20 -> Ok("wen")
          [] zhuanhao \in {21, 22} ->
                IF yunjingdeng = 3 THEN Ok("yuan")
                ELSE IF yunjingdeng = 4 THEN Ok("xian2")
                ELSE IF yunjingdeng = 2
                THEN IF rawsheng = "ru" THEN Ok("shan1") ELSE Ok("shan2")
                ELSE InvalidDeng
          [] zhuanhao \in {23, 24} ->
                IF yunjingdeng = 1 THEN Ok("han")
                ELSE IF yunjingdeng = 3 THEN Ok("xian2")
                ELSE IF yunjingdeng = 4 THEN Ok("xian1")
                ELSE IF yunjingdeng = 2
                THEN IF rawsheng = "ru" THEN Ok("shan2") ELSE Ok("shan1")
                ELSE InvalidDeng
          [] zhuanhao = 25 ->
                IF yunjingdeng = 1 THEN Ok("hao")
                ELSE IF yunjingdeng = 2 THEN Ok("yao")
                ELSE IF yunjingdeng = 3 THEN Ok("xiao3")
                ELSE IF yunjingdeng = 4 THEN Ok("xiao2")
                ELSE InvalidDeng
          [] zhuanhao = 26 -> Ok("xiao3")
          [] zhuanhao \in {27, 28} -> Ok("ge")
          [] zhuanhao \in {29, 30} -> Ok("ma")
          [] zhuanhao \in {31, 32} -> IF yunjingdeng = 1 THEN Ok("tang") ELSE Ok("yang")
          [] zhuanhao \in {33, 34} ->
                IF yunjingdeng \in {2, 3} THEN Ok("geng1")
                ELSE IF yunjingdeng = 4 THEN Ok("qing1")
                ELSE InvalidDeng
          [] zhuanhao = 35 ->
                IF yunjingdeng = 2 THEN Ok("geng2")
                ELSE IF yunjingdeng = 3 THEN Ok("qing1")
                ELSE IF yunjingdeng = 4 THEN Ok("qing2")
                ELSE InvalidDeng
          [] zhuanhao = 36 ->
                IF yunjingdeng = 2 THEN Ok("geng2")
                ELSE IF yunjingdeng = 4 THEN Ok("qing2")
                ELSE InvalidDeng
          [] zhuanhao = 37 ->
                IF yunjingdeng = 1 THEN Ok("hou1")
                ELSE IF yunjingdeng \in {2, 3} THEN Ok("you1")
                ELSE IF yunjingdeng = 4
                THEN IF ischiyin \/ youwei = 21 THEN Ok("you1") ELSE Ok("you2")
                ELSE InvalidDeng
          [] zhuanhao = 38 -> Ok("qin")
          [] zhuanhao = 39 ->
                IF yunjingdeng = 1 THEN Ok("tan1")
                ELSE IF yunjingdeng = 2 THEN Ok("xian3")
                ELSE IF yunjingdeng = 3 THEN Ok("yan1")
                ELSE IF yunjingdeng = 4 THEN Ok("tian")
                ELSE InvalidDeng
          [] zhuanhao = 40 ->
                IF yunjingdeng = 1 THEN Ok("tan2")
                ELSE IF yunjingdeng = 2 THEN Ok("xian4")
                ELSE IF yunjingdeng = 3 THEN Ok("yan2")
                ELSE IF yunjingdeng = 4 THEN Ok("yan1")
                ELSE InvalidDeng
          [] zhuanhao = 41 -> Ok("fan")
          [] zhuanhao \in {42, 43} -> IF yunjingdeng = 1 THEN Ok("deng") ELSE Ok("zheng")
          [] OTHER -> Bad(<<"wei zhi zhuan hao">>)

\* 韻鏡位置.韻鏡等
YunJingDeng(c) == ((c.shangwei - 1) % 4) + 1

\* 韻鏡位置.切韻等: the 等 it returns, or the ValueError it raises
QieYunDeng(c) ==
    LET Ok(deng) == [deng |-> deng, err |-> NoError]
        Bad(msg) == [deng |-> None, err |-> msg]
        WithYun(r) ==
            IF YunJingDeng(c) = 4 /\ r.err # NoError THEN Bad(r.err)
            ELSE IF YunJingDeng(c) = 4 /\ r.yun \notin DengYunDaPeiGet(<<"4">>) THEN Ok("3")
            ELSE IF YunJingDeng(c) = 2 /\ r.err # NoError THEN Bad(r.err)
            ELSE IF /\ YunJingDeng(c) = 2
                    /\ r.yun \notin DengYunDaPeiGet(<<"2">>) \cup DengYunDaPeiGet(<<"2", "3">>)
            THEN IF 12 < c.youwei /\ c.youwei <= 17 THEN Ok("3")
                 ELSE Bad(<<"jia er deng zhen san deng bi xu wei chi yin">>)
            ELSE IF /\ c.zhuanhao = 33
                    /\ \/ c.youwei = 16 /\ YunJingDeng(c) = 2
                       \/ c.youwei = 14 /\ c.shangwei \in {10, 14}
            THEN Ok("3")
            ELSE Ok(DengLst[YunJingDeng(c)])
    IN  IF c.zhuanhao = 6 /\ c.shangwei = 12 /\ c.youwei = 7 THEN Ok("4")
        ELSE IF c.zhuanhao = 29 /\ c.shangwei = 4 /\ c.youwei = 5 THEN Ok("4")
        ELSE WithYun(ZhuanHaoShangWeiYouWei2Yun(c.zhuanhao, c.shangwei, c.youwei))

\* 韻鏡位置.母: the 母 it returns, or the ValueError of 切韻等 it lets through
WeiZhiMu(c) ==
    LET Ok(mu) == [mu |-> mu, err |-> NoError]
        DuanZhi(qd) ==
            IF qd.err # NoError THEN [mu |-> None, err |-> qd.err]
            ELSE IF qd.deng \in {"1", "4"}
            THEN Ok(<<"duan", "tou", "ding", "ni">>[c.youwei - 4])
            ELSE Ok(<<"zhi1", "che", "cheng", "niang1">>[c.youwei - 4])
    IN  IF c.youwei <= 4 THEN Ok(<<"bang", "pang", "bing", "ming">>[c.youwei])
        ELSE IF c.youwei <= 8 THEN DuanZhi(QieYunDeng(c))
        ELSE IF c.youwei <= 12 THEN Ok(<<"jian", "xi", "qun1", "yi1">>[c.youwei - 8])
        ELSE IF c.youwei <= 17
        THEN IF YunJingDeng(c) \in {1, 4}
             THEN Ok(<<"jing", "qing1", "cong", "xin1", "xie1">>[c.youwei - 12])
             ELSE IF YunJingDeng(c) = 3
             THEN Ok(<<"zhang", "chang1", "chuan", "shu", "chang2">>[c.youwei - 12])
             ELSE Ok(<<"zhuang", "chu", "chong", "sheng", "si">>[c.youwei - 12])
        ELSE IF c.youwei <= 20 THEN Ok(<<"ying", "xiao1", "xia">>[c.youwei - 17])
        ELSE IF c.youwei = 21 THEN IF YunJingDeng(c) = 3 THEN Ok("yun") ELSE Ok("yi2")
        ELSE IF c.youwei <= 23 THEN Ok(<<"lai", "ri">>[c.youwei - 21])
        ELSE [mu |-> None, err |-> <<"invalid you wei">>]

\* 韻鏡位置.呼, given the 母 and the 韻 of the position
WeiZhiHu(c, mu, yun) ==
    IF mu \in BangZuMu \/ yun \in {"mo", "hou1", "you1"} THEN None ELSE ZhuanHu[c.zhuanhao]

\* 韻鏡位置.聲
WeiZhiSheng(c) ==
    LET rawsheng == ShengLst[((c.shangwei - 1) \div 4) + 1]
    IN  IF c.zhuanhao \in {9, 10, 13, 14} /\ rawsheng = "ru" THEN "qu" ELSE rawsheng

\* 韻鏡位置.類, given the 切韻等, the 母, the 呼 and the 韻 of the position: the 類
\* it returns, or the ValueError it raises
WeiZhiLei(c, deng, mu, hu, yun) ==
    LET Ok(lei) == [lei |-> lei, err |-> NoError]
    IN  IF deng # "3" \/ mu \notin DunYinMu THEN Ok(None)
        ELSE IF yun = "you2"
        THEN IF mu \in BangZuMu \/ (c.zhuanhao = 37 /\ c.shangwei = 4 /\ c.youwei = 10)
             THEN Ok("B") ELSE Ok("A")
        ELSE IF yun = "zheng"
        THEN IF mu \in BangZuMu \/ hu = "he" THEN Ok("B") ELSE Ok("C")
        ELSE IF yun \notin {"zhi2", "zhi3", "ji", "zhen1", "xian2", "xiao3", "qing1", "qin",
                            "yan1", "geng1", "you2"}
        THEN Ok("C")
        ELSE IF YunJingDeng(c) = 4 THEN Ok("A")
        ELSE IF YunJingDeng(c) = 3 THEN Ok("B")
        ELSE [lei |-> None, err |-> <<"bu ke yu qi de lei pan ding">>]

\* 韻鏡位置.to音韻地位: the six fields of the 音韻地位 it returns, or the
\* ValueError raised by one of the properties or by the constructor
ToYinYunDiWei(c) ==
    LET Raise(e) == [pos |-> None, err |-> e]
        New(t) == IF YanZhengT(t, <<>>) # NoError THEN Raise(YanZhengT(t, <<>>))
                  ELSE [pos |-> t, err |-> NoError]
        WithLei(mu, hu, deng, l, yun) ==
            IF l.err # NoError THEN Raise(l.err)
            ELSE New(Tuple(mu, hu, deng, l.lei, yun, WeiZhiSheng(c)))
        WithHu(mu, hu, deng, yun) == WithLei(mu, hu, deng, WeiZhiLei(c, deng, mu, hu, yun), yun)
        With(m, qd, r) ==
            IF m.err # NoError THEN Raise(m.err)
            ELSE IF r.err # NoError THEN Raise(r.err)
            ELSE IF qd.err # NoError THEN Raise(qd.err)
            ELSE WithHu(m.mu, WeiZhiHu(c, m.mu, r.yun), qd.deng, r.yun)
    IN  With(WeiZhiMu(c), QieYunDeng(c),
             ZhuanHaoShangWeiYouWei2Yun(c.zhuanhao, c.shangwei, c.youwei))

\* _母類呼韻聲2轉號: the 轉號 it returns, or the ValueError it raises
MuLeiHuYunSheng2ZhuanHao(mu, hu0, lei, yun, sheng, yunjingdeng) ==
    LET shoulduseheko ==
            \/ yun \in {"wei", "fei", "guai", "yuan", "han", "ge"}
            \/ yun \in {"jia1", "jie"} /\ sheng = "qu"
            \/ yun = "shan1" /\ sheng # "ru"
            \/ yun = "shan2" /\ sheng = "ru"
            \/ yun = "xian2" /\ sheng = "qu" /\ lei = "B"
        hu == IF hu0 = None THEN (IF shoulduseheko THEN "he" ELSE "kai") ELSE hu0
        Ok(n) == [zhuanhao |-> n, err |-> NoError]
        Bad(msg) == [zhuanhao |-> 0, err |-> msg]
        KaiHe(k, h) == IF hu = "kai" THEN Ok(k) ELSE Ok(h)
    IN  CASE yun = "dong1" -> Ok(1)
          [] yun \in {"dong2", "zhong"} -> Ok(2)
          [] yun = "jiang" -> Ok(3)
          [] yun = "zhi2" -> KaiHe(4, 5)
          [] yun = "zhi3" -> KaiHe(6, 7)
          [] yun = "zhi4" -> Ok(8)
          [] yun \in {"wei", "fei"} -> KaiHe(9, 10)
          [] yun = "yu1" -> Ok(11)
          [] yun \in {"yu2", "mo"} -> Ok(12)
          [] yun \in {"qi", "guai", "jie"} -> KaiHe(13, 14)
          [] yun = "hai" -> Ok(13)
          [] yun = "hui" -> Ok(14)
          [] yun = "ji" ->
                IF yunjingdeng = 3 THEN KaiHe(13, 14)
                ELSE IF yunjingdeng = 4 THEN KaiHe(15, 16)
                ELSE Bad(<<"yun jing deng invalid for ji yun", yunjingdeng>>)
          [] yun \in {"jia1", "tai"} -> KaiHe(15, 16)
          [] yun \in {"hen", "zhen2"} -> Ok(17)
          [] yun = "hun" -> Ok(18)
          [] yun = "zhen1" -> KaiHe(17, 18)
          [] yun = "yin1" -> Ok(19)
          [] yun = "wen" -> Ok(20)
          [] yun = "yuan" -> KaiHe(21, 22)
          [] yun = "shan2" -> IF sheng = "ru" THEN KaiHe(23, 24) ELSE KaiHe(21, 22)
          [] yun = "shan1" -> IF sheng = "ru" THEN KaiHe(21, 22) ELSE KaiHe(23, 24)
          [] yun = "xian2" ->
                IF yunjingdeng = 3 THEN KaiHe(23, 24)
                ELSE IF yunjingdeng \in {2, 4} THEN KaiHe(21, 22)
                ELSE Bad(<<"error">>)
          [] yun \in {"han", "xian1"} -> KaiHe(23, 24)
          [] yun \in {"xiao2", "yao", "hao"} -> Ok(25)
          [] yun = "xiao3" ->
                IF lei = "A" \/ mu \in {"jing", "qing1", "cong", "xin1", "xie1", "yi2"}
                THEN Ok(26) ELSE Ok(25)
          [] yun = "ge" -> KaiHe(27, 28)
          [] yun = "ma" -> KaiHe(29, 30)
          [] yun \in {"yang", "tang"} -> KaiHe(31, 32)
          [] yun = "geng1" -> KaiHe(33, 34)
          [] yun = "qing1" ->
                IF yunjingdeng = 3 /\ hu = "kai" THEN Ok(35)
                ELSE IF yunjingdeng = 3 THEN Bad(<<"error: no he kou">>)
                ELSE IF yunjingdeng = 4 THEN KaiHe(33, 34)
                ELSE Bad(<<"error">>)
          [] yun \in {"geng2", "qing2"} -> KaiHe(35, 36)
          [] yun \in {"you1", "hou1", "you2"} -> Ok(37)
          [] yun = "qin" -> Ok(38)
          [] yun = "yan1" ->
                IF yunjingdeng = 3 THEN Ok(39)
                ELSE IF yunjingdeng = 4 THEN Ok(40)
                ELSE Bad(<<"yun jing deng invalid for yan yun", yunjingdeng>>)
          [] yun \in {"tan1", "xian3", "tian"} -> Ok(39)
          [] yun \in {"tan2", "xian4"} -> Ok(40)
          [] yun = "yan2" ->
                IF yunjingdeng = 3 THEN Ok(40)
                ELSE Bad(<<"yun jing deng invalid for yan2 yun", yunjingdeng>>)
          [] yun = "fan" -> Ok(41)
          [] yun \in {"deng", "zheng"} -> KaiHe(42, 43)
          [] OTHER -> Bad(<<"wei zhi yun zhong">>)

\* 韻鏡位置.__post_init__: the ValueError it raises, or NoError
WeiZhiPostInit(zhuanhao, shangwei, youwei) ==
    IF ~(1 <= zhuanhao /\ zhuanhao <= 43) THEN <<"zhuan hao bi xu zai 1 dao 43 zhi jian">>
    ELSE IF ~(1 <= shangwei /\ shangwei <= 16) THEN <<"shang wei bi xu zai 1 dao 16 zhi jian">>
    ELSE IF ~(1 <= youwei /\ youwei <= 23) THEN <<"you wei bi xu zai 1 dao 23 zhi jian">>
    ELSE NoError

\* the 韻鏡等 that 音韻地位2韻鏡位置 computes for the position p
RawYunJingDeng(p) ==
    LET needaddone ==
            \/ p.lei = "A"
            \/ p.mu \in {"jing", "qing1", "cong", "xin1", "xie1", "yi2"} /\ p.deng = "3"
            \/ p.yun = "you2"
        needminusone == p.mu \in {"zhuang", "chu", "chong", "sheng", "si"} /\ p.deng = "3"
    IN  IF needaddone THEN IndexOf(DengLst, p.deng) + 1
        ELSE IF needminusone THEN IndexOf(DengLst, p.deng) - 1
        ELSE IndexOf(DengLst, p.deng)

\* the 上位 without the 寄入 of the 廢韻 and the 夬韻
RawShangWeiOfSheng(p) == (IndexOf(ShengLst, p.sheng) - 1) * 4 + RawYunJingDeng(p)

\* the 上位 that 音韻地位2韻鏡位置 computes for the position p
RawShangWei(p) ==
    LET needjiru == p.yun \in {"fei", "guai"}
    IN  (IF needjiru THEN 3 ELSE IndexOf(ShengLst, p.sheng) - 1) * 4 + RawYunJingDeng(p)

\* 音韻地位2韻鏡位置: the 韻鏡位置 it returns, or the ValueError it raises
YinYunDiWei2YunJingWeiZhi(p) ==
    LET youwei == MuIdx2YouWei[IndexOf(Mu2Idx, p.mu)]
        New(zhuanhao) ==
            IF WeiZhiPostInit(zhuanhao, RawShangWei(p), youwei) # NoError
            THEN [wei |-> None, err |-> WeiZhiPostInit(zhuanhao, RawShangWei(p), youwei)]
            ELSE [wei |-> [zhuanhao |-> zhuanhao, shangwei |-> RawShangWei(p),
                           youwei |-> youwei],
                  err |-> NoError]
        With(z) == IF z.err # NoError THEN [wei |-> None, err |-> z.err] ELSE New(z.zhuanhao)
    IN  With(MuLeiHuYunSheng2ZhuanHao(p.mu, p.hu, p.lei, p.yun, p.sheng, RawYunJingDeng(p)))

\* 音韻地位2韻鏡位置(self)
CallYinYunDiWei2YunJingWeiZhi ==
    /\ pc = "new" /\ err = NoError
    /\ LET Returned(r) == wei' = r.wei /\ err' = r.err
       IN  Returned(YinYunDiWei2YunJingWeiZhi(self))
    /\ pc' = "weizhi"
    /\ UNCHANGED <<arg, kinds, self, out, other, upper, lower, logger, args, called>>

\* 音韻地位2韻鏡位置(self).to音韻地位()
CallToYinYunDiWei ==
    /\ pc = "weizhi" /\ err = NoError
    /\ LET Returned(r) == other' = r.pos /\ err' = r.err
       IN  Returned(ToYinYunDiWei(wei))
    /\ pc' = "diwei"
    /\ UNCHANGED <<arg, kinds, self, out, upper, lower, logger, wei, args, called>>

\* a position is constructed, taken to the 韻鏡 and brought back
SpecYunJing ==
    InitBianYuan /\ [][NewKnown \/ CallYinYunDiWei2YunJingWeiZhi \/ CallToYinYunDiWei]_vars

\* the 韻鏡位置 that can be constructed: 轉號 1..43, 上位 1..16, 右位 1..23
AllWeiZhi == [zhuanhao : 1..43, shangwei : 1..16, youwei : 1..23]

\* wei.to音韻地位()
WeiZhiToYinYunDiWei ==
    /\ pc = "start"
    /\ LET Returned(r) == self' = r.pos /\ err' = r.err
       IN  Returned(ToYinYunDiWei(wei))
    /\ pc' = "to diwei"
    /\ UNCHANGED <<arg, kinds, out, other, upper, lower, logger, wei, args, called>>

\* 音韻地位2韻鏡位置(wei.to音韻地位())
BackToYunJingWeiZhi ==
    /\ pc = "to diwei" /\ err = NoError
    /\ LET Returned(r) == out' = r.wei /\ err' = r.err
       IN  Returned(YinYunDiWei2YunJingWeiZhi(self))
    /\ pc' = "to weizhi"
    /\ UNCHANGED <<arg, kinds, self, other, upper, lower, logger, wei, args, called>>

InitWeiZhi ==
    /\ pc = "start"
    /\ wei \in AllWeiZhi
    /\ arg = None /\ kinds = <<>> /\ self = None /\ err = NoError
    /\ out = None /\ other = None /\ upper = None /\ lower = None
    /\ logger = NewLogger /\ args = None /\ called = <<>>

\* a 韻鏡位置 is taken to its 音韻地位 and brought back
SpecWeiZhi == InitWeiZhi /\ [][WeiZhiToYinYunDiWei \/ BackToYunJingWeiZhi]_vars

----------------------------------------------------------------------------
(* 屬於: the grammar of expressions *)
(* A formula is a leaf <<"leaf", word>>, a negation <<"not", f>>, a          *)
(* conjunction <<"and", f, g>> or a disjunction <<"or", f, g>>.  It is        *)
(* written as a string with one spelling for each operator, parentheses     *)
(* only where 'or' under 'and', or 'and' or 'or' under 'not', requires them. *)

\* the leaves: 一等, 開口, 來母
Leaves == { <<"leaf", <<"1", "deng0">> >>, <<"leaf", <<"kai", "kou">> >>,
            <<"leaf", <<"lai", "mu0">> >> }

\* the formulas of one operator over the formulas of F
OneMore(F) ==
    F \cup {<<"not", f>> : f \in F} \cup {<<"and", f, g>> : f \in F, g \in F}
      \cup {<<"or", f, g>> : f \in F, g \in F}

\* the formulas tried: at most two operators deep, and three negations
Formulas == OneMore(OneMore(Leaves)) \cup {<<"not", <<"not", <<"not", f>> >> >> : f \in Leaves}

\* the spellings of 'not', of 'and' (the last one is juxtaposition) and of 'or'
NotSpellings == { <<"n", "o", "t">>, <<"!">>, <<"~">>, <<"fei0">> }
AndSpellings == { <<"a", "n", "d">>, <<"&", "&">>, <<"qie">>, <<>> }
OrSpellings == { <<"o", "r">>, <<"|", "|">>, <<"huo">> }

\* the ways a formula is spelt: one operator varies, the parentheses are
\* half-width or full-width
Spellings ==
    {[nt |-> n, nd |-> <<"qie">>, r |-> <<"huo">>, open |-> "(", close |-> ")"] :
        n \in NotSpellings}
    \cup {[nt |-> <<"fei0">>, nd |-> a, r |-> <<"huo">>, open |-> "(", close |-> ")"] :
        a \in AndSpellings}
    \cup {[nt |-> <<"fei0">>, nd |-> <<"qie">>, r |-> o, open |-> "(", close |-> ")"] :
        o \in OrSpellings}
    \cup {[nt |-> <<"!">>, nd |-> <<>>, r |-> <<"|", "|">>, open |-> "fw(", close |-> "fw)"]}

\* how tightly the operator at the root of a formula binds
Binding(f) == CASE f[1] = "or" -> 1 [] f[1] = "and" -> 2 [] f[1] = "not" -> 3 [] OTHER -> 4

\* the formula f as a string, where an operator binding at least level is needed
RECURSIVE Written(_, _, _)
Written(f, sp, level) ==
    LET bare == CASE f[1] = "leaf" -> f[2]
                  [] f[1] = "not" -> sp.nt \o <<" ">> \o Written(f[2], sp, 3)
                  [] f[1] = "and" ->
                        Written(f[2], sp, 2) \o <<" ">> \o sp.nd \o <<" ">> \o Written(f[3], sp, 3)
                  [] f[1] = "or" ->
                        Written(f[2], sp, 1) \o <<" ">> \o sp.r \o <<" ">> \o Written(f[3], sp, 2)
    IN  IF Binding(f) < level THEN <<sp.open>> \o bare \o <<sp.close>> ELSE bare

\* the value of the formula f for the position obj
RECURSIVE Value(_, _)
Value(obj, f) ==
    CASE f[1] = "leaf" -> EvalToken(obj, f[2]).val
      [] f[1] = "not" -> ~Value(obj, f[2])
      [] f[1] = "and" -> Value(obj, f[2]) /\ Value(obj, f[3])
      [] f[1] = "or" -> Value(obj, f[2]) \/ Value(obj, f[3])

\* the receivers tried: 來開一咍平, 幫三C凡入, 見合一灰平, 來開三之平
Receivers ==
    { Tuple("lai", "kai", "1", None, "hai", "ping"), Tuple("bang", None, "3", "C", "fan", "ru"),
      Tuple("jian", "he", "1", None, "hui", "ping"), Tuple("lai", "kai", "3", None, "zhi4", "ping") }

\* self.屬於(args.text)
CallShuYuText ==
    /\ pc = "new" /\ err = NoError
    /\ LET Returned(r) == out' = r.val /\ err' = r.err
       IN  Returned(ShuYu(self, args.text))
    /\ pc' = "shuyu"
    /\ UNCHANGED <<arg, kinds, self, other, upper, lower, logger, wei, args, called>>

InitYuFa ==
    /\ pc = "start"
    /\ arg \in Receivers
    /\ \E f \in Formulas, sp \in Spellings :
          args = [tree |-> f, text |-> Written(f, sp, 1)]
    /\ kinds = <<>> /\ self = None /\ err = NoError
    /\ out = None /\ other = None /\ upper = None /\ lower = None
    /\ logger = NewLogger /\ wei = None /\ called = <<>>

\* a position is constructed and asked whether it 屬於 a written formula
SpecYuFa == InitYuFa /\ [][NewDefault \/ CallShuYuText]_vars

----------------------------------------------------------------------------
(* 屬於 with 參數 *)
(* A Python value handed to 屬於 or returned by a callable is <<"bool", b>>,  *)
(* <<"str", s>>, <<"int", n>> or <<"none">>; a callable 參數 is               *)
(* <<"callable", v>> for the value v it returns.  The callable of the i-th  *)
(* 參數 is known by the number i.                                            *)

\* bool(value)
Truthy(value) ==
    CASE value[1] = "bool" -> value[2]
      [] value[1] = "str" -> value[2] # <<>>
      [] value[1] = "int" -> value[2] # 0
      [] OTHER -> FALSE

RECURSIVE EvalLazy(_, _)
RECURSIVE EvalSeq(_, _, _, _)

\* all(...) and any(...) without the short circuit: every item is evaluated
RECURSIVE EvalSeqEager(_, _, _, _)
EvalSeqEager(obj, operands, i, stop) ==
    LET Join(r, rest) ==
            IF rest.err # NoError THEN [rest EXCEPT !.calls = r.calls \o @]
            ELSE [val |-> IF r.val = stop THEN stop ELSE rest.val, err |-> NoError,
                  calls |-> r.calls \o rest.calls]
        Step(r) == IF r.err # NoError THEN r
                   ELSE Join(r, EvalSeqEager(obj, operands, i + 1, stop))
    IN  IF i > Len(operands) THEN [val |-> ~stop, err |-> NoError, calls |-> <<>>]
        ELSE Step(EvalLazy(obj, operands[i]))

\* all(...) for stop = FALSE and any(...) for stop = TRUE over the operands from
\* the i-th on: the items are evaluated in order until one has the value stop
EvalSeq(obj, operands, i, stop) ==
    LET Join(r, rest) == [rest EXCEPT !.calls = r.calls \o @]
        Step(r) == IF r.err # NoError THEN r
                   ELSE IF r.val = stop THEN r
                   ELSE Join(r, EvalSeq(obj, operands, i + 1, stop))
    IN  IF i > Len(operands) THEN [val |-> ~stop, err |-> NoError, calls |-> <<>>]
        ELSE Step(EvalLazy(obj, operands[i]))

\* eval_operand(operand) where operands may be LazyParameter: the boolean, the
\* ValueError, and the callables that LazyParameter.eval invoked, in order
EvalLazy(obj, operand) ==
    LET \* LazyParameter.eval: value = self._inner()
        OfStr(id, r) == [val |-> r.val, err |-> r.err, calls |-> <<id>>]
        Eval(id, value) ==
            IF value[1] = "str" THEN OfStr(id, ShuYu(obj, value[2]))
            ELSE [val |-> Truthy(value), err |-> NoError, calls |-> <<id>>]
        Negate(r) == IF r.err # NoError THEN r ELSE [r EXCEPT !.val = ~@]
    IN  IF operand.kind = "bool" THEN [val |-> operand.val, err |-> NoError, calls |-> <<>>]
        ELSE IF operand.kind = "lazy" THEN Eval(operand.id, operand.inner[2])
        ELSE IF operand.kind = "not" THEN Negate(EvalLazy(obj, operand.operands[1]))
        ELSE IF operand.kind = "and" THEN EvalSeq(obj, operand.operands, 1, FALSE)
        ELSE EvalSeq(obj, operand.operands, 1, TRUE)

\* 音韻地位.屬於(表達式, *參數) for a sequence of strings: the boolean, the
\* ValueError, and the callables invoked
ShuYuCanShu(obj, segments, canshu) ==
    LET Raise(e) == [val |-> None, err |-> e, calls |-> <<>>]
        \* str(True), str(False)
        Str(r) == IF r.err # NoError THEN <<>> ELSE IF r.val THEN <<"True">> ELSE <<"False">>
        OfStr(r) == [kind |-> "bool", val |-> r.val, raw |-> Str(r), err |-> r.err]
        \* LazyParameter.from_value(參數[index], self) and the token appended
        FromValue(i) ==
            IF canshu[i][1] = "str" THEN OfStr(ShuYu(obj, canshu[i][2]))
            ELSE IF canshu[i][1] = "callable"
            THEN [kind |-> "lazy", id |-> i, inner |-> canshu[i], raw |-> <<"<function>">>,
                  err |-> NoError]
            ELSE OfStr([val |-> Truthy(canshu[i]), err |-> NoError])
        Made(raws) == [j \in DOMAIN raws |-> MakeToken(obj, raws[j])]
        Segment(i) == Made(Tokenize(segments[i]))
                        \o (IF i <= Len(canshu) THEN <<FromValue(i)>> ELSE <<>>)
        Result(tokens, tree) ==
            IF tree.err # NoError THEN Raise(tree.err)
            ELSE IF tree.cursor <= Len(tokens) THEN Raise(<<"unexpected trailing tokens">>)
            ELSE EvalLazy(obj, tree.node)
        Parse(tokens, bad) ==
            IF bad # {} THEN Raise(tokens[CHOOSE i \in bad : \A j \in bad : i <= j].err)
            ELSE IF tokens = <<>> THEN Raise(<<"empty expression">>)
            ELSE Result(tokens, ParseOr(tokens, 1, TRUE))
        Tokens(tokens) == Parse(tokens, {i \in DOMAIN tokens : tokens[i].err # NoError})
    IN  Tokens(FlattenFrom([i \in DOMAIN segments |-> Segment(i)], 1))

\* the expressions with 參數 tried: the strings, and the formula they spell
\* over the 參數 <<"param", i>> and the leaf 一等 (the last one spells none)
Templates ==
    { [segments |-> << <<>>, <<" ", "huo", " ">>, <<>> >>,
       tree |-> <<"or", <<"param", 1>>, <<"param", 2>> >>],
      [segments |-> << <<>>, <<" ", "qie", " ">>, <<>> >>,
       tree |-> <<"and", <<"param", 1>>, <<"param", 2>> >>],
      [segments |-> << <<"fei0", " ">>, <<" ", "qie", " ">>, <<>> >>,
       tree |-> <<"and", <<"not", <<"param", 1>> >>, <<"param", 2>> >>],
      [segments |-> << <<>>, <<" ">>, <<" ", "huo", " ", "1", "deng0">> >>,
       tree |-> <<"or", <<"and", <<"param", 1>>, <<"param", 2>> >>, <<"leaf", <<"1", "deng0">> >> >>],
      [segments |-> << <<"1", "deng0", " ", "huo", " ">>, <<" ", "qie", " ", "fei0", " ">>, <<>> >>,
       tree |-> <<"or", <<"leaf", <<"1", "deng0">> >>,
                        <<"and", <<"param", 1>>, <<"not", <<"param", 2>> >> >> >>],
      [segments |-> << <<"(">>, <<" ", "huo", " ">>, <<")", " ", "qie", " ", "(">>, <<")">> >>,
       tree |-> <<"and", <<"or", <<"param", 1>>, <<"param", 2>> >>, <<"param", 3>> >>],
      [segments |-> << <<"huo", " ">>, <<" ", "(">> >>, tree |-> <<"none">>] }

\* the 參數 tried: callables returning a boolean, a valid or an invalid
\* expression, or another value; strings (the last one invalid); other values
CanShuValues ==
    { <<"callable", <<"bool", TRUE>> >>, <<"callable", <<"bool", FALSE>> >>,
      <<"callable", <<"str", <<"3", "deng0">> >> >>, <<"callable", <<"str", <<"1", "deng0">> >> >>,
      <<"callable", <<"str", <<"duan3", "lu">> >> >>,
      <<"callable", <<"int", 0>> >>, <<"callable", <<"int", 2>> >>, <<"callable", <<"none">> >>,
      <<"str", <<"3", "deng0">> >>, <<"str", <<"li", "ji2", "qiu", "zhi6">> >>,
      <<"bool", TRUE>>, <<"int", 0>> }

\* the number of 參數 handed to 屬於
MaxCanShu == 3

\* self.屬於(args.segments, *args.canshu)
CallShuYuCanShu ==
    /\ pc = "new" /\ err = NoError
    /\ LET Returned(r) ==
              /\ out' = r.val /\ err' = r.err
              /\ called' = called \o r.calls
       IN  Returned(ShuYuCanShu(self, args.segments, args.canshu))
    /\ pc' = "shuyu"
    /\ UNCHANGED <<arg, kinds, self, other, upper, lower, logger, wei, args>>

\* a position is constructed and asked whether it 屬於 an expression with 參數
SpecCanShu ==
    /\ pc = "start"
    /\ arg \in {Tuple("bang", None, "3", "C", "fan", "ru"),
                Tuple("jian", "he", "1", None, "hui", "ping")}
    /\ \E t \in Templates, cs \in [1..MaxCanShu -> CanShuValues] :
          args = [segments |-> t.segments, tree |-> t.tree,
                  canshu |-> SubSeq(cs, 1, Len(t.segments) - 1)]
    /\ kinds = <<>> /\ self = None /\ err = NoError
    /\ out = None /\ other = None /\ upper = None /\ lower = None
    /\ logger = NewLogger /\ wei = None /\ called = <<>>
    /\ [][NewDefault \/ CallShuYuCanShu]_vars

----------------------------------------------------------------------------
(* 屬於: malformed expressions *)

\* the words that the expressions tried are made of: 一等 非 且 或 ( )
Words == { <<"1", "deng0">>, <<"fei0">>, <<"qie">>, <<"huo">>, <<"(">>, <<")">> }

\* the number of words of an expression
MaxWords == 5

\* the words with a space after each
RECURSIVE Spaced(_)
Spaced(words) ==
    IF words = <<>> THEN <<>> ELSE Head(words) \o <<" ">> \o Spaced(Tail(words))

\* a position is constructed and asked whether it 屬於 a sequence of words
SpecCuoWu ==
    /\ pc = "start"
    /\ arg = Tuple("bang", None, "3", "C", "fan", "ru")
    /\ \E n \in 0..MaxWords : \E words \in [1..n -> Words] :
          args = [words |-> words, text |-> Spaced(words)]
    /\ kinds = <<>> /\ self = None /\ err = NoError
    /\ out = None /\ other = None /\ upper = None /\ lower = None
    /\ logger = NewLogger /\ wei = None /\ called = <<>>
    /\ [][NewDefault \/ CallShuYuText]_vars

----------------------------------------------------------------------------
(* 判斷 *)
(* A rule list is a sequence of rows and a row a sequence of items: the      *)
(* condition (a value as the 參數 above) and the result. A result is a       *)
(* payload <<"val", n>> or a list <<"list", rows>>. A callable condition is   *)
(* known by the numbers of the rows that lead to it.                          *)

\* Exhaustion = object()
Exhaustion == <<"Exhaustion">>

\* the None that 判斷 returns
NoneValue == <<"none">>

\* 判斷: is_rule_list
IsRuleList(obj) ==
    obj[1] = "list" /\ \A k \in DOMAIN obj[2] : Len(obj[2][k]) = 2

\* 判斷: loop(rule_list) from the i-th row on; path leads to rule_list
RECURSIVE PanDuanLoop(_, _, _, _, _)
PanDuanLoop(obj, rule_list, i, fall_through, path) ==
    LET After(calls, r) == [r EXCEPT !.calls = calls \o @]
        Raise(e, calls) == [res |-> Exhaustion, err |-> e, calls |-> calls]
        Nested(r, calls) ==
            IF r.err = NoError /\ r.res = Exhaustion /\ fall_through
            THEN After(calls \o r.calls, PanDuanLoop(obj, rule_list, i + 1, fall_through, path))
            ELSE After(calls, r)
        Matched(jieguo, calls) ==
            IF IsRuleList(jieguo)
            THEN Nested(PanDuanLoop(obj, jieguo[2], 1, fall_through, path \o <<i>>), calls)
            ELSE [res |-> jieguo, err |-> NoError, calls |-> calls]
        Decided(condition, jieguo, calls) ==
            IF condition.err # NoError THEN Raise(condition.err, calls)
            ELSE IF condition.val THEN Matched(jieguo, calls)
            ELSE After(calls, PanDuanLoop(obj, rule_list, i + 1, fall_through, path))
        Condition(biaodashi) ==
            IF biaodashi[1] = "str"
            THEN IF Truthy(biaodashi) THEN ShuYu(obj, biaodashi[2])
                 ELSE [val |-> FALSE, err |-> NoError]
            ELSE [val |-> Truthy(biaodashi), err |-> NoError]
        Row(biaodashi, jieguo) ==
            IF biaodashi[1] = "callable"
            THEN Decided(Condition(biaodashi[2]), jieguo, <<path \o <<i>>>>)
            ELSE Decided(Condition(biaodashi), jieguo, <<>>)
    IN  IF i > Len(rule_list) THEN [res |-> Exhaustion, err |-> NoError, calls |-> <<>>]
        ELSE IF Len(rule_list[i]) # 2 THEN Raise(<<"gui ze xu fu he ge shi">>, <<>>)
        ELSE Row(rule_list[i][1], rule_list[i][2])

\* 判斷 that goes on after an exhausted nested list whatever fall_through is
PanDuanFallThrough(obj, guize, throws, fall_through) ==
    LET Result(r) ==
            IF r.err # NoError THEN [val |-> NoneValue, err |-> r.err, calls |-> r.calls]
            ELSE IF r.res # Exhaustion THEN [val |-> r.res, err |-> NoError, calls |-> r.calls]
            ELSE IF throws = <<"bool", FALSE>>
            THEN [val |-> NoneValue, err |-> NoError, calls |-> r.calls]
            ELSE [val |-> NoneValue, calls |-> r.calls,
                  err |-> IF throws[1] = "str" THEN <<"ValueError", throws[2]>>
                          ELSE <<"wei han gai suo you tiao jian">>]
    IN  Result(PanDuanLoop(obj, guize, 1, TRUE, <<>>))

\* 音韻地位.判斷(規則, throws, fall_through): the value it returns, the
\* ValueError it raises and the callables it calls
PanDuan(obj, guize, throws, fall_through) ==
    LET Result(r) ==
            IF r.err # NoError THEN [val |-> NoneValue, err |-> r.err, calls |-> r.calls]
            ELSE IF r.res # Exhaustion THEN [val |-> r.res, err |-> NoError, calls |-> r.calls]
            ELSE IF throws = <<"bool", FALSE>>
            THEN [val |-> NoneValue, err |-> NoError, calls |-> r.calls]
            ELSE [val |-> NoneValue, calls |-> r.calls,
                  err |-> IF throws[1] = "str" THEN <<"ValueError", throws[2]>>
                          ELSE <<"wei han gai suo you tiao jian">>]
    IN  Result(PanDuanLoop(obj, guize, 1, fall_through, <<>>))

\* the conditions tried: the empty string, 一等, 三等, a string that spells no
\* condition, and callables returning 一等 and False
Conditions ==
    { <<"str", <<>> >>, <<"str", <<"1", "deng0">> >>, <<"str", <<"3", "deng0">> >>,
      <<"str", <<"duan3", "lu">> >>,
      <<"callable", <<"str", <<"1", "deng0">> >> >>, <<"callable", <<"bool", FALSE>> >> }

\* the results tried: a payload, the empty list, a list of one row, a list
\* with a list in it, and a list with a row of one item
JieGuo ==
    { <<"val", 1>>,
      <<"list", <<>> >>,
      <<"list", << << <<"callable", <<"bool", FALSE>> >>, <<"val", 2>> >> >> >>,
      <<"list", << << <<"str", <<"1", "deng0">> >>,
                      <<"list", << << <<"str", <<"3", "deng0">> >>, <<"val", 3>> >> >> >> >>,
                   << <<"callable", <<"str", <<"1", "deng0">> >> >>, <<"val", 4>> >> >> >>,
      <<"list", << << <<"str", <<"1", "deng0">> >> >> >> >> }

\* the rows tried: every condition with every result, and a row of one item
Rows == {<<c, r>> : c \in Conditions, r \in JieGuo} \cup {<< <<"str", <<"1", "deng0">> >> >>}

\* the values of throws tried: False, True and a message
Throws == { <<"bool", FALSE>>, <<"bool", TRUE>>, <<"str", <<"x">> >> }

\* the number of rows of 規則
MaxRows == 2

\* self.判斷(args.guize, args.throws, args.fall_through)
CallPanDuan ==
    /\ pc = "new" /\ err = NoError
    /\ LET Returned(r) ==
              /\ out' = r.val /\ err' = r.err
              /\ called' = called \o r.calls
       IN  Returned(PanDuan(self, args.guize, args.throws, args.fall_through))
    /\ pc' = "panduan"
    /\ UNCHANGED <<arg, kinds, self, other, upper, lower, logger, wei, args>>

\* 見合一灰平 is constructed and 判斷 called with a rule list
SpecPanDuan ==
    /\ pc = "start"
    /\ arg = Tuple("jian", "he", "1", None, "hui", "ping")
    /\ \E n \in 0..MaxRows : \E guize \in [1..n -> Rows] :
          \E throws \in Throws, fall_through \in BOOLEAN :
              args = [guize |-> guize, throws |-> throws, fall_through |-> fall_through]
    /\ kinds = <<>> /\ self = None /\ err = NoError
    /\ out = None /\ other = None /\ upper = None /\ lower = None
    /\ logger = NewLogger /\ wei = None /\ called = <<>>
    /\ [][NewDefault \/ CallPanDuan]_vars

----------------------------------------------------------------------------
(* 調整 *)
(* The overrides are <<"str", text>> or <<"dict", d>>, d a record of some of *)
(* the six fields.                                                            *)

\* str.split(): the words between the spaces of s, from the i-th character on,
\* word being the characters of the word that is being read
RECURSIVE SplitFrom(_, _, _)
SplitFrom(s, i, word) ==
    IF i > Len(s) THEN IF word = <<>> THEN <<>> ELSE <<word>>
    ELSE IF s[i] = " "
    THEN (IF word = <<>> THEN <<>> ELSE <<word>>) \o SplitFrom(s, i + 1, <<>>)
    ELSE SplitFrom(s, i + 1, Append(word, s[i]))

\* set_attr that lets a second assignment of a field replace the first
SetAttrAgain(shuxingobject, shuxing, value) ==
    [attrs |-> [k \in DOMAIN shuxingobject \cup {shuxing} |->
                   IF k = shuxing THEN value ELSE shuxingobject[k]],
     err |-> NoError]

\* 調整: set_attr(屬性, value)
SetAttr(shuxingobject, shuxing, value) ==
    IF shuxing \in DOMAIN shuxingobject
    THEN [attrs |-> shuxingobject, err |-> <<"duplicated assignment of", shuxing>>]
    ELSE [attrs |-> [k \in DOMAIN shuxingobject \cup {shuxing} |->
                        IF k = shuxing THEN value ELSE shuxingobject[k]],
          err |-> NoError]

\* 調整: the loop over the tokens, from the i-th on
RECURSIVE TiaoZhengTokens(_, _, _)
TiaoZhengTokens(tokens, i, shuxingobject) ==
    LET Next(r) == IF r.err # NoError THEN r ELSE TiaoZhengTokens(tokens, i + 1, r.attrs)
        Key(key) ==
            CASE key = "mu0" -> "mu" [] key = "kou" -> "hu" [] key = "deng0" -> "deng"
              [] key = "lei0" -> "lei" [] key = "yun0" -> "yun" [] key = "sheng0" -> "sheng"
        Token(token) ==
            IF token = <<"kai", "he", "zhong0", "li">> THEN Next(SetAttr(shuxingobject, "hu", None))
            ELSE IF token = <<"bu", "fen", "lei0">> THEN Next(SetAttr(shuxingobject, "lei", None))
            ELSE IF Len(token) = 2 /\ token[2] \in {"mu0", "kou", "deng0", "lei0", "yun0", "sheng0"}
            THEN Next(SetAttr(shuxingobject, Key(token[2]), token[1]))
            ELSE [attrs |-> shuxingobject, err |-> <<"unrecognized expression", token>>]
    IN  IF i > Len(tokens) THEN [attrs |-> shuxingobject, err |-> NoError]
        ELSE Token(tokens[i])

\* 音韻地位.調整(調整屬性, 邊緣地位種類): the new 音韻地位, or the ValueError
TiaoZheng(obj, tiaozhengshuxing, bianyuan) ==
    LET Get(attrs, k) == IF k \in DOMAIN attrs THEN attrs[k] ELSE obj[k]
        New(t) == [val |-> IF YanZhengT(t, bianyuan) = NoError THEN t ELSE None,
                   err |-> YanZhengT(t, bianyuan)]
        With(r) ==
            IF r.err # NoError THEN [val |-> None, err |-> r.err]
            ELSE New(Tuple(Get(r.attrs, "mu"), Get(r.attrs, "hu"), Get(r.attrs, "deng"),
                           Get(r.attrs, "lei"), Get(r.attrs, "yun"), Get(r.attrs, "sheng")))
    IN  IF tiaozhengshuxing[1] = "str"
        THEN With(TiaoZhengTokens(SplitFrom(tiaozhengshuxing[2], 1, <<>>), 1, <<>>))
        ELSE With([attrs |-> tiaozhengshuxing[2], err |-> NoError])

\* the words that the overrides tried are written with: 見母 影母 合口 開合中立
\* 不分類 A類 仙韻 平聲 一等, and 短路 and 見母合口, which are no assignments
TiaoZhengWords ==
    { <<"jian", "mu0">>, <<"ying", "mu0">>, <<"he", "kou">>, <<"kai", "he", "zhong0", "li">>,
      <<"bu", "fen", "lei0">>, <<"A", "lei0">>, <<"xian2", "yun0">>, <<"ping", "sheng0">>,
      <<"1", "deng0">>, <<"duan3", "lu">>, <<"jian", "mu0", "he", "kou">> }

\* the mappings tried
TiaoZhengDicts ==
    { [sheng |-> "ping"], [mu |-> "jian"], [mu |-> "jian", hu |-> "he"],
      [lei |-> "A", yun |-> "xian2"], [hu |-> None, mu |-> "ming"] }

\* the number of words of a string of overrides
MaxTokens == 3

\* self.調整(args.tiaozheng)
CallTiaoZheng ==
    /\ pc = "new" /\ err = NoError
    /\ LET Returned(r) == other' = r.val /\ err' = r.err
       IN  Returned(TiaoZheng(self, args.tiaozheng, <<>>))
    /\ pc' = "tiaozheng"
    /\ UNCHANGED <<arg, kinds, self, out, upper, lower, logger, wei, args, called>>

\* 幫三C元上, 見合一灰平 or 羣開三A支平 is constructed and 調整 called on it
SpecTiaoZheng ==
    /\ pc = "start"
    /\ arg \in {Tuple("bang", None, "3", "C", "yuan", "shang"),
                Tuple("jian", "he", "1", None, "hui", "ping"),
                Tuple("qun1", "kai", "3", "A", "zhi2", "ping")}
    /\ \/ \E n \in 0..MaxTokens : \E words \in [1..n -> TiaoZhengWords] :
             args = [tiaozheng |-> <<"str", Spaced(words)>>, words |-> words]
       \/ \E d \in TiaoZhengDicts : args = [tiaozheng |-> <<"dict", d>>, words |-> <<>>]
    /\ kinds = <<>> /\ self = None /\ err = NoError
    /\ out = None /\ other = None /\ upper = None /\ lower = None
    /\ logger = NewLogger /\ wei = None /\ called = <<>>
    /\ [][NewDefault \/ CallTiaoZheng]_vars

----------------------------------------------------------------------------
(* StringLogger *)
(* The calls made on the logger are recorded in called: <<"log", message>>,  *)
(* <<"enable">> and <<"disable">> for the two assignments of enable, and      *)
(* <<"pop_all">>.                                                             *)

\* the messages logged
Messages == {"a", "b"}

\* the number of calls made on the logger
MaxCalls == 5

\* logger.log(message)
LoggerLog ==
    /\ Len(called) < MaxCalls
    /\ \E message \in Messages :
          /\ logger' = LogAll(logger, <<message>>)
          /\ called' = Append(called, <<"log", message>>)
    /\ pc' = "log"
    /\ UNCHANGED <<arg, kinds, self, err, out, other, upper, lower, wei, args>>

\* logger.enable = True, logger.enable = False
LoggerSetEnable ==
    /\ Len(called) < MaxCalls
    /\ \E enable \in BOOLEAN :
          /\ logger' = [logger EXCEPT !.enable = enable]
          /\ called' = Append(called, IF enable THEN <<"enable">> ELSE <<"disable">>)
    /\ pc' = "enable"
    /\ UNCHANGED <<arg, kinds, self, err, out, other, upper, lower, wei, args>>

\* logger.pop_all(): result = self._messages.copy(); self._messages.clear()
LoggerPopAll ==
    /\ Len(called) < MaxCalls
    /\ out' = logger.buffer
    /\ logger' = [logger EXCEPT !.buffer = <<>>]
    /\ called' = Append(called, <<"pop_all">>)
    /\ pc' = "pop_all"
    /\ UNCHANGED <<arg, kinds, self, err, other, upper, lower, wei, args>>

\* a StringLogger is created, and logged to, switched and drained in any order
SpecLogger ==
    /\ pc = "start" /\ logger = NewLogger /\ called = <<>>
    /\ arg = None /\ kinds = <<>> /\ self = None /\ err = NoError
    /\ out = None /\ other = None /\ upper = None /\ lower = None
    /\ wei = None /\ args = None
    /\ [][LoggerLog \/ LoggerSetEnable \/ LoggerPopAll]_vars

----------------------------------------------------------------------------
(* 壓縮表示 *)
(* A 編碼 is the sequence of its characters.                                  *)

\* 編碼表
BianMaBiao ==
    <<"A", "B", "C", "D", "E", "F", "G", "H", "I", "J", "K", "L", "M", "N", "O", "P", "Q", "R",
      "S", "T", "U", "V", "W", "X", "Y", "Z", "a", "b", "c", "d", "e", "f", "g", "h", "i", "j",
      "k", "l", "m", "n", "o", "p", "q", "r", "s", "t", "u", "v", "w", "x", "y", "z", "0", "1",
      "2", "3", "4", "5", "6", "7", "8", "9", "$", "_">>

\* 韻序表; the full-width asterisk is "*"
YunXuBiao ==
    <<"dong1", "*", "dong2", "zhong", "jiang", "zhi2", "zhi3", "zhi4", "wei", "yu1", "yu2",
      "mo", "qi", "ji", "tai", "jia1", "jie", "guai", "hui", "hai", "fei", "zhen1", "zhen2",
      "wen", "yin1", "yuan", "hun", "hen", "han", "shan1", "shan2", "xian1", "xian2", "xiao2",
      "xiao3", "yao", "hao", "ge", "*", "ma", "*", "yang", "tang", "geng1", "*", "geng2",
      "qing1", "qing2", "zheng", "deng", "you1", "hou1", "you2", "qin", "tan1", "tan2", "yan1",
      "tian", "xian3", "xian4", "yan2", "fan">>

\* an encoder that gives a 韻 the same 韻序 in every 等
EncodeWithoutDeng(diwei) ==
    <<BianMaBiao[IndexOf(SuoYou.mu, diwei.mu)],
      BianMaBiao[IndexOf(YunXuBiao, diwei.yun)],
      BianMaBiao[(IF diwei.hu = None THEN 0 ELSE IndexOf(SuoYou.hu, diwei.hu)) * 16
                 + (IF diwei.lei = None THEN 0 ELSE IndexOf(SuoYou.lei, diwei.lei)) * 4
                 + IndexOf(SuoYou.sheng, diwei.sheng)]>>

\* encode音韻編碼(地位). Indices count from 0 in the code and from 1 here; the
\* three fields of 呼類聲序 do not overlap, so the bitwise or is a sum
EncodeYinYunBianMa(diwei) ==
    LET muxu == IndexOf(SuoYou.mu, diwei.mu) - 1
        yunxu == (IndexOf(YunXuBiao, diwei.yun) - 1)
                 + (IF diwei.yun \in {"dong1", "ge", "ma", "geng1"} /\ diwei.deng \notin {"1", "2"}
                    THEN 1 ELSE 0)
        huxu == IF diwei.hu # None THEN (IndexOf(SuoYou.hu, diwei.hu) - 1) + 1 ELSE 0
        leixu == IF diwei.lei # None THEN (IndexOf(SuoYou.lei, diwei.lei) - 1) + 1 ELSE 0
        huleishengxu == (huxu * 16) + (leixu * 4) + (IndexOf(SuoYou.sheng, diwei.sheng) - 1)
    IN  <<BianMaBiao[muxu + 1], BianMaBiao[yunxu + 1], BianMaBiao[huleishengxu + 1]>>

\* decode音韻編碼(編碼): the 音韻地位, or the error
DecodeYinYunBianMa(bianma) ==
    LET Bad(e) == [val |-> None, err |-> e]
        LookupIndex(char) == IF char \in Range(BianMaBiao) THEN IndexOf(BianMaBiao, char) - 1 ELSE -1
        New(t) == IF YanZhengT(t, UNCHECKED) = NoError THEN [val |-> t, err |-> NoError]
                  ELSE Bad(YanZhengT(t, UNCHECKED))
        Rest(mu, yun, deng, huleishengxu) ==
            LET huxu == huleishengxu \div 16
                leixu == (huleishengxu \div 4) % 4
                shengxu == huleishengxu % 4
            IN  IF ~(huxu <= Len(SuoYou.hu)) THEN Bad(<<"Invalid hu xu hao", huxu>>)
                ELSE IF ~(leixu <= Len(SuoYou.lei)) THEN Bad(<<"Invalid lei xu hao", leixu>>)
                ELSE New(Tuple(mu, IF huxu # 0 THEN SuoYou.hu[huxu] ELSE None, deng,
                               IF leixu # 0 THEN SuoYou.lei[leixu] ELSE None,
                               yun, SuoYou.sheng[shengxu + 1]))
        Deng(mu, yun, star, huleishengxu) ==
            LET found == {i \in DOMAIN DengYunDaPei : yun \in DengYunDaPei[i].yun}
                yundeng == DengYunDaPei[CHOOSE i \in found : \A j \in found : i <= j].deng
                at == IF star THEN 2 ELSE 1
            IN  IF found = {} THEN Bad(<<"Cannot resolve deng for yun", yun>>)
                ELSE IF at > Len(yundeng) THEN Bad(<<"IndexError">>)
                ELSE Rest(mu, yun,
                          IF yundeng[at] = "3" /\ mu \in {"duan", "tou", "ding", "ni"}
                          THEN "4" ELSE yundeng[at],
                          huleishengxu)
        Yun(mu, yunxu, huleishengxu) ==
            IF ~(yunxu < Len(YunXuBiao)) THEN Bad(<<"Invalid yun xu hao", yunxu>>)
            ELSE IF YunXuBiao[yunxu + 1] = "*"
            THEN Deng(mu, YunXuBiao[yunxu], TRUE, huleishengxu)
            ELSE Deng(mu, YunXuBiao[yunxu + 1], FALSE, huleishengxu)
        Indices(muxu, yunxu, huleishengxu) ==
            IF muxu = -1 THEN Bad(<<"Invalid character in bian ma", bianma[1]>>)
            ELSE IF yunxu = -1 THEN Bad(<<"Invalid character in bian ma", bianma[2]>>)
            ELSE IF huleishengxu = -1 THEN Bad(<<"Invalid character in bian ma", bianma[3]>>)
            ELSE IF ~(muxu < Len(SuoYou.mu)) THEN Bad(<<"Invalid mu xu hao", muxu>>)
            ELSE Yun(SuoYou.mu[muxu + 1], yunxu, huleishengxu)
    IN  IF Len(bianma) # 3 THEN Bad(<<"Invalid bian ma", bianma>>)
        ELSE Indices(LookupIndex(bianma[1]), LookupIndex(bianma[2]), LookupIndex(bianma[3]))

\* encode音韻編碼(self)
CallEncode ==
    /\ pc = "new" /\ err = NoError
    /\ out' = EncodeYinYunBianMa(self)
    /\ pc' = "encode"
    /\ UNCHANGED <<arg, kinds, self, err, other, upper, lower, logger, wei, args, called>>

\* decode音韻編碼(out)
CallDecode ==
    /\ pc = "encode"
    /\ LET Returned(r) == other' = r.val /\ err' = r.err
       IN  Returned(DecodeYinYunBianMa(out))
    /\ pc' = "decode"
    /\ UNCHANGED <<arg, kinds, self, out, upper, lower, logger, wei, args, called>>

\* a position is constructed, encoded, and the 編碼 decoded
SpecBianMa == InitBianYuan /\ [][NewKnown \/ CallEncode \/ CallDecode]_vars

----------------------------------------------------------------------------
(* 屬於: invalid conditions *)

\* the words that the expressions with invalid conditions are made of:
\* 三等 一等 桓韻 重紐A類 短路 或 且 非 (
WuXiaoWords ==
    { <<"3", "deng0">>, <<"1", "deng0">>, <<"huan1", "yun0">>,
      <<"chong2", "niu", "A", "lei0">>, <<"duan3", "lu">>,
      <<"huo">>, <<"qie">>, <<"fei0">>, <<"(">> }

\* the number of words of such an expression
MaxLeaves == 4

\* a position is constructed and asked whether it 屬於 a sequence of words, some
\* of them no condition
SpecWuXiao ==
    /\ pc = "start"
    /\ arg = Tuple("bang", None, "3", "C", "fan", "ru")
    /\ \E n \in 0..MaxLeaves : \E words \in [1..n -> WuXiaoWords] :
          args = [words |-> words, text |-> Spaced(words)]
    /\ kinds = <<>> /\ self = None /\ err = NoError
    /\ out = None /\ other = None /\ upper = None /\ lower = None
    /\ logger = NewLogger /\ wei = None /\ called = <<>>
    /\ [][NewDefault \/ CallShuYuText]_vars

\* a position is constructed with known kinds and 調整({}) called on it
SpecBaoLiu ==
    /\ pc = "start"
    /\ \E mu \in SuoYouSet.mu, hu \in SuoYouSet.hu \cup {None}, deng \in SuoYouSet.deng,
          lei \in SuoYouSet.lei \cup {None}, yun \in SuoYouSet.yun, sheng \in SuoYouSet.sheng :
          /\ PassesRules(Tuple(mu, hu, deng, lei, yun, sheng))
          /\ arg = Tuple(mu, hu, deng, lei, yun, sheng)
    /\ args = [tiaozheng |-> <<"dict", <<>> >>, words |-> <<>>]
    /\ kinds = <<>> /\ self = None /\ err = NoError
    /\ out = None /\ other = None /\ upper = None /\ lower = None
    /\ logger = NewLogger /\ wei = None /\ called = <<>>
    /\ [][NewKnown \/ CallTiaoZheng]_vars

\* 音韻地位.韻圖等
YunTuDeng(p) ==
    IF p.mu \in {"zhuang", "chu", "chong", "sheng", "si"} THEN "2"
    ELSE IF p.lei = "A" \/ (p.deng = "3" /\ p.mu \in {"jing", "qing1", "cong", "xin1", "xie1", "yi2"})
    THEN "4"
    ELSE p.deng

\* the constructor has returned an object
Constructed == pc = "new" /\ err = NoError

----------------------------------------------------------------------------
(* the order of the rule families *)

\* the rule family a ValueError of 驗證 belongs to, by its message
MsgFamily(e) ==
    CASE e[1] \in {"missing", "unrecognized"} -> 1
      [] e[1] = "unexpected yun ru sheng" -> 2
      [] e[1] = "unexpected mu deng" -> 3
      [] e[1] = "unexpected yun deng" -> 4
      [] e[1] \in {"unexpected hu for chun yin", "unexpected hu for kai he zhong li yun",
                   "missing hu (should be kai or he)", "missing hu (should be)",
                   "unexpected yun hu", "missing hu"} -> 5
      [] e[1] \in {"unexpected lei for fei san deng", "unexpected lei for rui yin sheng mu",
                   "unknown yun", "missing lei", "unexpected yun mu A lei",
                   "unexpected yun lei"} -> 6
      [] e[1] \in {"unexpected yun chun yin", "unexpected fan yun fei chun yin"} -> 7
      [] e[1] \in {"unexpected yun zhuang zu", "unexpected yun kai kou zhuang zu",
                   "unexpected zhen yun fei zhuang zu", "unexpected geng yun deng mu"} -> 8
      [] e[1] \in {"duplicates in bian yuan di wei zhong lei", "unknown type of marginal",
                   "unexpected marginal", "expect marginal"} -> 9

\* family k's rule, taken alone, rejects the tuple t given with the kinds K
Violates(k, t, K) ==
    CASE k = 1 -> CheckSuoYou(t.mu, t.hu, t.deng, t.lei, t.yun, t.sheng) # NoError
      [] k = 2 -> CheckRuSheng(t.yun, t.sheng) # NoError
      [] k = 3 -> CheckDengMu(t.mu, t.deng) # NoError
      [] k = 4 -> CheckDengYun(t.mu, t.deng, t.yun) # NoError
      [] k = 5 -> CheckHu(t.mu, t.hu, t.yun) # NoError
      [] k = 6 -> CheckLei(t.mu, t.deng, t.lei, t.yun) # NoError
      [] k = 7 -> CheckChunYin(t.mu, t.yun) # NoError
      [] k = 8 -> CheckZhuangZu(t.mu, t.hu, t.deng, t.yun) # NoError
      [] k = 9 -> CheckBianYuan(t.mu, t.hu, t.deng, t.lei, t.yun, t.sheng, K) # NoError

ViolatedFamilies(t, K) == {k \in 1..9 : Violates(k, t, K)}

\* C1: the ValueError raised for a tuple is one of the earliest rule family the
\* tuple violates, in the order (1) domains, (2) 入聲 of a 陰聲韻, (3) 母-等,
\* (4) 韻-等, (5) 呼, (6) 類, (7) 脣音 and 凡, (8) 莊組, (9) 邊緣地位: so it is
\* for every tuple that violates more than one family; and the constructor
\* returns only when no family is violated.
C1_FirstFamilyReported ==
    pc = "new" =>
        IF err = NoError
        THEN self = arg /\ ViolatedFamilies(arg, kinds) = {}
        ELSE /\ self = None
             /\ Violates(MsgFamily(err), arg, kinds)
             /\ \A k \in 1..9 : k < MsgFamily(err) => ~Violates(k, arg, kinds)

\* a tuple that breaks the 韻-等 table and a later family, but none before
C1_Witness ==
    /\ pc = "new"
    /\ LET V == ViolatedFamilies(arg, kinds)
       IN  Cardinality(V) > 1 /\ (\A k \in V : k >= 4) /\ 4 \in V
    /\ err # NoError /\ MsgFamily(err) = 4

----------------------------------------------------------------------------
(* 類 and 呼 of the constructed objects *)

\* C4: an object the constructor returns has a 類 exactly when its 等 is 三 and
\* its 母 is in 鈍音母; the 類 it has is one of those 類搭配(母, 韻) allows, and
\* is not A when the 母 is 云.
C4_LeiOfConstructed ==
    Constructed =>
        /\ self.lei # None <=> (self.deng = "3" /\ self.mu \in DunYinMu)
        /\ self.lei # None =>
              /\ ~LeiDaPei(self.mu, self.yun).unknown
              /\ self.lei \in Range(LeiDaPei(self.mu, self.yun).keyong)
              /\ ~(self.mu = "yun" /\ self.lei = "A")

\* a 云母 object of 類 B has been constructed
C4_Witness == Constructed /\ self.mu = "yun" /\ self.deng = "3" /\ self.lei = "B"

\* C5: an object the constructor returns has no 呼 exactly when its 母 is one
\* of 幫滂並明 or its 韻 is in 呼韻搭配["中立"]; with another 母 and a 韻 of
\* 呼韻搭配["開"] its 呼 is 開, and with a 韻 of 呼韻搭配["合"] it is 合.
C5_HuOfConstructed ==
    Constructed =>
        /\ self.hu = None <=> (self.mu \in BangZuMu \/ self.yun \in HuYunDaPei.zhongli)
        /\ (self.mu \notin BangZuMu /\ self.yun \in HuYunDaPei.kai) => self.hu = "kai"
        /\ (self.mu \notin BangZuMu /\ self.yun \in HuYunDaPei.he) => self.hu = "he"

\* an object with a 韻 fixed to 合 and a 母 outside 幫滂並明 has been constructed
C5_Witness ==
    Constructed /\ self.mu \notin BangZuMu /\ self.yun \in HuYunDaPei.he /\ self.hu = "he"

----------------------------------------------------------------------------
(* 邊緣地位種類 *)

\* the condition of the kind in marginal_tests, for the tuple t
Triggered(kind, t) ==
    LET tests == MarginalTests(t.mu, t.hu, t.deng, t.lei, t.yun)
    IN  \E i \in DOMAIN tests : tests[i].kind = kind /\ tests[i].condition

StrictKinds == KnownKinds \ {"yun mu kai kou"}

\* the tuple t is one of 已知邊緣地位
Whitelisted(t) == Concat(t.mu, t.hu, t.deng, t.lei, t.yun, t.sheng) \in YiZhiBianYuanDiWei

\* C2: for a tuple that passes the rule families 1-8 and is not in 已知邊緣地位,
\* the constructor given the kinds K returns exactly when K has no duplicates,
\* holds known kinds only, holds each strict kind exactly when the tuple triggers
\* it, and holds 云母開口 whenever the tuple triggers it.
C2_KindsReconciled ==
    (pc = "new" /\ kinds # UNCHECKED /\ PassesRules(arg) /\ ~Whitelisted(arg)) =>
        (err = NoError <=>
            /\ \A i, j \in DOMAIN kinds : kinds[i] = kinds[j] => i = j
            /\ Range(kinds) \subseteq KnownKinds
            /\ \A kind \in StrictKinds : kind \in Range(kinds) <=> Triggered(kind, arg)
            /\ Triggered("yun mu kai kou", arg) => "yun mu kai kou" \in Range(kinds))

\* an object of 端組類隔 constructed with that kind and the lenient kind 云母開口,
\* which it does not trigger
C2_Witness ==
    /\ Constructed /\ ~Whitelisted(arg)
    /\ Len(kinds) = MaxKinds /\ Range(kinds) = {"duan zu lei ge", "yun mu kai kou"}
    /\ Triggered("duan zu lei ge", arg) /\ ~Triggered("yun mu kai kou", arg)

\* C3: the constructor given a kind that is not known raises ValueError for
\* every tuple that passes the rule families 1-8, those of 已知邊緣地位 included.
C3_UnknownKindRaises ==
    (pc = "new" /\ PassesRules(arg) /\ \E i \in DOMAIN kinds : kinds[i] \notin KnownKinds)
        => err # NoError

----------------------------------------------------------------------------
(* the round trips through 描述 and 簡略描述 *)

\* C6: for a position P constructed with the kinds K, from描述(P.描述, False, K)
\* returns a position with the six fields of P.
C6_MiaoShuRoundTrip ==
    pc = "from miaoshu" => (err = NoError /\ other = self)

\* the round trip of a description that has neither 呼 nor 類, of a position
\* that needed a kind
C6_Witness ==
    /\ pc = "from miaoshu" /\ err = NoError
    /\ self.hu = None /\ self.lei = None /\ kinds # <<>> /\ other = self

\* C8: for a position P constructed with the kinds K, from描述(P.簡略描述, True, K)
\* returns a position whose 描述 is P.描述.
C8_JianLveRoundTrip ==
    pc = "from jianlve concise" => (err = NoError /\ MiaoShu(other) = MiaoShu(self))

----------------------------------------------------------------------------
(* 屬於 on 表達式 *)

\* C7: for valid positions P and Q, Q.屬於(P.表達式) raises nothing and is true
\* if and only if Q has the six fields of P.
C7_ShuYuIffSameFields ==
    pc = "shuyu" => (err = NoError /\ (out <=> (other = self)))

\* Q differs from P in the 類 alone, and Q.屬於(P.表達式) is false
C7_Witness ==
    /\ pc = "shuyu" /\ err = NoError
    /\ self.lei = "A" /\ other = [self EXCEPT !.lei = "B"]
    /\ out = FALSE

----------------------------------------------------------------------------
(* 執行反切 *)

\* 端開一登入, 匣一東平 and 端一東平
DuanKaiYiDengRu == Tuple("duan", "kai", "1", None, "deng", "ru")
XiaYiDongPing == Tuple("xia", None, "1", None, "dong1", "ping")
DuanYiDongPing == Tuple("duan", None, "1", None, "dong1", "ping")

\* C9: every candidate that 執行反切(upper, lower) returns has the 母 of upper and
\* the 韻 and the 聲 of lower, and 執行反切(端開一登入, 匣一東平) contains 端一東平.
C9_CandidateMuYunSheng ==
    (pc = "fanqie" /\ err = NoError) =>
        /\ \A i \in DOMAIN out :
              out[i].mu = upper.mu /\ out[i].yun = lower.yun /\ out[i].sheng = lower.sheng
        /\ (upper = DuanKaiYiDengRu /\ lower = XiaYiDongPing)
              => \E i \in DOMAIN out : out[i] = DuanYiDongPing

\* 執行反切(端開一登入, 匣一東平) has returned 端一東平
C9_Witness ==
    /\ pc = "fanqie" /\ err = NoError
    /\ upper = DuanKaiYiDengRu /\ lower = XiaYiDongPing
    /\ out = <<DuanYiDongPing>>

\* C10: 執行反切 raises nothing, the RuntimeError of generate等 included; every
\* element of the list it returns validates with no 邊緣地位種類; every candidate
\* tuple that fails the validation is left out of the list, and its message is
\* in the buffer of the logger when the logger is enabled.
C10_FanQieNeverRaises ==
    pc = "fanqie" =>
        /\ err = NoError
        /\ \A i \in DOMAIN out : YanZhengT(out[i], <<>>) = NoError
        /\ \A t \in Range(FanQieCandidates(upper, lower)) :
              YanZhengT(t, <<>>) # NoError =>
                  /\ t \notin Range(out)
                  /\ logger.enable =>
                        HuLveMsg(t, YanZhengT(t, <<>>)) \in Range(logger.buffer)

\* of several candidates some are returned and the others are dropped and logged
C10_Witness ==
    /\ pc = "fanqie" /\ err = NoError /\ logger.enable
    /\ out # <<>>
    /\ Len(out) < Len(FanQieCandidates(upper, lower))
    /\ \E i \in DOMAIN logger.buffer :
          logger.buffer[i][1] = "hu lve wu xiao de yin yun di wei, yuan yin"

----------------------------------------------------------------------------
(* 韻鏡: the two directions *)

\* the exception set: a 莊組 initial with the 仙 rime
ZhuangZuXianYun(p) == p.mu \in ZhuangZuMu /\ p.yun = "xian2"

\* C11: for every valid position P outside the 莊組/仙韻 exception set,
\* 音韻地位2韻鏡位置(P) succeeds and its to音韻地位() is P again; for a P of the
\* exception set the position recovered is P with the 韻 replaced by 山 (刪 in
\* the 入聲) and the 等 replaced by 二.
C11_DiWeiRoundTrip ==
    /\ pc = "weizhi" => err = NoError
    /\ pc = "diwei" =>
          /\ err = NoError
          /\ other = IF ZhuangZuXianYun(self)
                     THEN [self EXCEPT !.yun = IF self.sheng = "ru" THEN "shan1" ELSE "shan2",
                                       !.deng = "2"]
                     ELSE self

\* C12: for every 韻鏡位置 c whose to音韻地位() succeeds and is outside the
\* exception set, 音韻地位2韻鏡位置(c.to音韻地位()) has the 轉號, the 上位 and the
\* 右位 of c.
C12_WeiZhiRoundTrip ==
    (pc = "to weizhi" /\ ~ZhuangZuXianYun(self)) => (err = NoError /\ out = wei)

----------------------------------------------------------------------------
(* 屬於: the grammar *)

\* C13: 屬於 returns the value of the formula that the expression spells, with
\* 'or' binding loosest, 'and' (explicit or by juxtaposition) tighter, 'not'
\* tightest and parentheses grouping; every spelling of an operator gives the
\* same result, and k negations negate iff k is odd.
C13_ShuYuIsFormulaValue ==
    pc = "shuyu" => (err = NoError /\ out = Value(self, args.tree))

\* 屬於("非 非 非 來母") has returned TRUE, and so has an expression with
\* 'or' before 'and' whose value with 'and' before 'or' would be FALSE
C13_Witness ==
    /\ pc = "shuyu" /\ err = NoError /\ out = TRUE
    /\ \/ args.tree = <<"not", <<"not", <<"not", <<"leaf", <<"lai", "mu0">> >> >> >> >>
       \/ /\ args.tree[1] = "or" /\ args.tree[3][1] = "and"
          /\ args.tree[2][1] = "leaf" /\ args.tree[3][2][1] = "leaf"
          /\ args.tree[3][3][1] = "leaf"
          /\ ~((Value(self, args.tree[2]) \/ Value(self, args.tree[3][2]))
                 /\ Value(self, args.tree[3][3]))

----------------------------------------------------------------------------
(* 屬於: the 參數 *)

\* the value of the formula f over the 參數 and the callables that an
\* evaluation from left to right reaches, where a true operand ends an 'or'
\* and a false operand ends an 'and'
RECURSIVE Reached(_, _, _)
Reached(obj, f, canshu) ==
    LET Of(value) == IF value[1] = "str" THEN EvalToken(obj, value[2]).val ELSE Truthy(value)
        Param(i) == IF canshu[i][1] = "callable"
                    THEN [val |-> Of(canshu[i][2]), calls |-> <<i>>]
                    ELSE [val |-> Of(canshu[i]), calls |-> <<>>]
        Then(l, stop) == IF l.val = stop THEN l
                         ELSE [val |-> Reached(obj, f[3], canshu).val,
                               calls |-> l.calls \o Reached(obj, f[3], canshu).calls]
    IN  CASE f[1] = "leaf" -> [val |-> EvalToken(obj, f[2]).val, calls |-> <<>>]
          [] f[1] = "param" -> Param(f[2])
          [] f[1] = "not" -> [Reached(obj, f[2], canshu) EXCEPT !.val = ~@]
          [] f[1] = "and" -> Then(Reached(obj, f[2], canshu), FALSE)
          [] f[1] = "or" -> Then(Reached(obj, f[2], canshu), TRUE)

\* the 參數 that are strings spelling no test condition
InvalidStrings(canshu) ==
    {i \in DOMAIN canshu : canshu[i][1] = "str" /\ EvalToken(self, canshu[i][2]).err # NoError}

\* the callables among the 參數 that return a boolean or a string
BoolOrStr(canshu) ==
    {i \in DOMAIN canshu : canshu[i][1] = "callable" /\ canshu[i][2][1] \in {"bool", "str"}}

\* C14: a callable 參數 is invoked only if the evaluation of the and/or tree
\* from left to right reaches its operand, and at most once in one call of
\* 屬於; a string 參數 is evaluated at once, before the expression is parsed.
C14_CallablesLazyStringsEager ==
    pc = "shuyu" =>
        /\ \A i, j \in DOMAIN called : called[i] = called[j] => i = j
        /\ InvalidStrings(args.canshu) # {} =>
              /\ err # NoError /\ err[1] = "unrecognized test condition"
              /\ called = <<>>
        /\ (err = NoError /\ \A i \in Range(called) : i \in BoolOrStr(args.canshu)) =>
              called = Reached(self, args.tree, args.canshu).calls

\* 屬於 has returned without invoking the second callable, after invoking the first
C14_Witness ==
    /\ pc = "shuyu" /\ err = NoError
    /\ called = <<1>>
    /\ BoolOrStr(args.canshu) = {1, 2}

\* C15: when a callable 參數 that the evaluation reaches returns a value that
\* is neither a boolean nor a string, 屬於 raises.
C15_OtherValueRaises ==
    (pc = "shuyu" /\ \E i \in Range(called) : args.canshu[i][2][1] \notin {"bool", "str"})
        => err # NoError

----------------------------------------------------------------------------
(* 屬於: the malformed expressions *)

\* the grammar of expressions over the words w from the i-th to the one before
\* the j-th: an operand is a condition or an expression in parentheses, 'not'
\* comes before an operand, 'and' (or nothing) between, 'or' between those
RECURSIVE IsOperand(_, _, _)
RECURSIVE IsNegation(_, _, _)
RECURSIVE IsConjunction(_, _, _)
RECURSIVE IsExpression(_, _, _)
IsOperand(w, i, j) ==
    \/ j = i + 1 /\ ClassifyToken(w[i]) = None
    \/ j > i + 2 /\ w[i] = <<"(">> /\ w[j - 1] = <<")">> /\ IsExpression(w, i + 1, j - 1)
IsNegation(w, i, j) ==
    \/ IsOperand(w, i, j)
    \/ j > i + 1 /\ ClassifyToken(w[i]) = "not" /\ IsNegation(w, i + 1, j)
IsConjunction(w, i, j) ==
    \/ IsNegation(w, i, j)
    \/ \E k \in (i + 1)..(j - 1) :
          /\ IsConjunction(w, i, k)
          /\ \/ IsNegation(w, k, j)
             \/ ClassifyToken(w[k]) = "and" /\ k + 1 < j /\ IsNegation(w, k + 1, j)
IsExpression(w, i, j) ==
    \/ IsConjunction(w, i, j)
    \/ \E k \in (i + 1)..(j - 2) :
          IsExpression(w, i, k) /\ ClassifyToken(w[k]) = "or" /\ IsConjunction(w, k + 1, j)

WellFormed(w) == w # <<>> /\ IsExpression(w, 1, Len(w) + 1)

----------------------------------------------------------------------------
(* 判斷 *)

\* every row of the list, and of the lists in it, has two items
RECURSIVE AllPairs(_)
AllPairs(rows) ==
    \A k \in DOMAIN rows :
        /\ Len(rows[k]) = 2
        /\ rows[k][2][1] = "list" => AllPairs(rows[k][2][2])

\* what a condition comes to: of a callable what it returns; a string holds
\* when 屬於 says so, fails when it spells no condition, and the empty string
\* does not hold; any other value holds when it is true
Verdict(obj, c) ==
    LET OfShuYu(r) == IF r.err # NoError THEN "fails" ELSE IF r.val THEN "holds" ELSE "skips"
        Of(v) == IF v[1] # "str" THEN IF Truthy(v) THEN "holds" ELSE "skips"
                 ELSE IF v[2] = <<>> THEN "skips"
                 ELSE OfShuYu(ShuYu(obj, v[2]))
    IN  IF c[1] = "callable" THEN Of(c[2]) ELSE Of(c)

\* what the rows of a decision table stand for from the i-th on, for the
\* position obj: the payload of the first row whose condition holds, the
\* outcome of its nested table, and after an exhausted nested table the
\* outcome of the rows below when fall_through is set; "exhausted" when no row
\* is left, "raises" when a condition cannot be evaluated
RECURSIVE Outcome(_, _, _, _)
Outcome(obj, rows, i, fall_through) ==
    LET Inner(o) ==
            IF o = <<"exhausted">> /\ fall_through
            THEN Outcome(obj, rows, i + 1, fall_through)
            ELSE o
        Row(v, result) ==
            IF v = "fails" THEN <<"raises">>
            ELSE IF v = "skips" THEN Outcome(obj, rows, i + 1, fall_through)
            ELSE IF result[1] = "list" THEN Inner(Outcome(obj, result[2], 1, fall_through))
            ELSE result
    IN  IF i > Len(rows) THEN <<"exhausted">>
        ELSE Row(Verdict(obj, rows[i][1]), rows[i][2])

\* the callable conditions that are evaluated from the i-th row on, in order:
\* those of the rows down to the first whose condition holds, those of its
\* nested table, and those below it when the rows below are gone on with
RECURSIVE Evaluated(_, _, _, _, _)
Evaluated(obj, rows, i, fall_through, path) ==
    LET Own(c) == IF c[1] = "callable" THEN <<path \o <<i>>>> ELSE <<>>
        Below(o) ==
            IF fall_through /\ o = <<"exhausted">>
            THEN Evaluated(obj, rows, i + 1, fall_through, path)
            ELSE <<>>
        Row(c, v, result) ==
            IF v = "fails" THEN Own(c)
            ELSE IF v = "skips" THEN Own(c) \o Evaluated(obj, rows, i + 1, fall_through, path)
            ELSE IF result[1] # "list" THEN Own(c)
            ELSE Own(c) \o Evaluated(obj, result[2], 1, fall_through, path \o <<i>>)
                        \o Below(Outcome(obj, result[2], 1, fall_through))
    IN  IF i > Len(rows) THEN <<>>
        ELSE Row(rows[i][1], Verdict(obj, rows[i][1]), rows[i][2])

\* C17: 判斷 returns the payload of the first row whose condition is truthy
\* (the empty string skips the row, a callable is called first, no row after
\* the match is evaluated), the result of the nested list of that row, and
\* after an exhausted nested list goes on with the next outer row only when
\* fall_through is set; exhausted, it returns None when throws is False and
\* raises ValueError, with the message when throws is a string, otherwise.
C17_PanDuanFirstMatch ==
    (pc = "panduan" /\ AllPairs(args.guize)) =>
        LET Is(o) ==
            /\ called = Evaluated(self, args.guize, 1, args.fall_through, <<>>)
            /\ IF o = <<"raises">> THEN err # NoError
               ELSE IF o # <<"exhausted">> THEN err = NoError /\ out = o
               ELSE IF args.throws = <<"bool", FALSE>> THEN err = NoError /\ out = NoneValue
               ELSE IF args.throws[1] = "str" THEN err = <<"ValueError", args.throws[2]>>
               ELSE err = <<"wei han gai suo you tiao jian">>
        IN  Is(Outcome(self, args.guize, 1, args.fall_through))

\* with fall_through the nested list of the first row was exhausted and the
\* second row gave the payload; the callables of both were called
C17_Witness ==
    /\ pc = "panduan" /\ args.fall_through
    /\ args.guize =
          << << <<"str", <<"1", "deng0">> >>,
                <<"list", << << <<"callable", <<"bool", FALSE>> >>, <<"val", 2>> >> >> >> >>,
             << <<"callable", <<"str", <<"1", "deng0">> >> >>, <<"val", 1>> >> >>
    /\ err = NoError /\ out = <<"val", 1>>
    /\ called = << <<1, 1>>, <<2>> >>

\* a row of the list, or of a list in it, has not two items
RECURSIVE HasMalformed(_)
HasMalformed(rows) ==
    \E k \in DOMAIN rows :
        \/ Len(rows[k]) # 2
        \/ Len(rows[k]) = 2 /\ rows[k][2][1] = "list" /\ HasMalformed(rows[k][2][2])

\* C18: a row that has not exactly two items makes 判斷 raise ValueError,
\* whether or not an earlier row matched and wherever the row is, in the list
\* or in a list given as a result.
C18_MalformedRowRaises ==
    (pc = "panduan" /\ HasMalformed(args.guize)) => err # NoError

----------------------------------------------------------------------------
(* 調整 *)

\* the field that a word of overrides assigns, or None when it assigns none
Assigns(w) ==
    IF w = <<"kai", "he", "zhong0", "li">> THEN "hu"
    ELSE IF w = <<"bu", "fen", "lei0">> THEN "lei"
    ELSE IF Len(w) # 2 THEN None
    ELSE CASE w[2] = "mu0" -> "mu" [] w[2] = "kou" -> "hu" [] w[2] = "deng0" -> "deng"
           [] w[2] = "lei0" -> "lei" [] w[2] = "yun0" -> "yun" [] w[2] = "sheng0" -> "sheng"
           [] OTHER -> None

\* the overrides that the arguments of 調整 name: the fields and their values
Overrides(a) ==
    IF a.tiaozheng[1] = "dict"
    THEN {<<k, a.tiaozheng[2][k]>> : k \in DOMAIN a.tiaozheng[2]}
    ELSE {<<Assigns(w), IF Len(w) = 2 THEN w[1] ELSE None>> : w \in Range(a.words)}

\* a word of the overrides assigns nothing, or two words assign the same field
BadOverrides(a) ==
    \/ \E w \in Range(a.words) : Assigns(w) = None
    \/ \E i, j \in DOMAIN a.words : i # j /\ Assigns(a.words[i]) = Assigns(a.words[j])

\* the receiver with the overrides
Overridden(obj, a) ==
    [k \in DOMAIN obj |->
        IF \E o \in Overrides(a) : o[1] = k
        THEN (CHOOSE o \in Overrides(a) : o[1] = k)[2]
        ELSE obj[k]]

\* C19: 調整 returns a new instance in which each named field has the override
\* value and every other field that of the receiver; it raises for an
\* unrecognized token, for a second assignment of a field (開合中立 and 不分類
\* assign 呼 and 類) and when the new fields do not validate; the six fields
\* of the receiver are the same after the call, whether it returns or raises.
C19_TiaoZhengOverrides ==
    pc = "tiaozheng" =>
        /\ self = arg
        /\ IF BadOverrides(args) THEN err # NoError /\ other = None
           ELSE /\ err = YanZhengT(Overridden(arg, args), <<>>)
                /\ other = IF err = NoError THEN Overridden(arg, args) ELSE None

\* 幫三C元上.調整("仙韻 A類") has returned 幫三A仙上, and 幫三C元上 is what it was
C19_Witness ==
    /\ pc = "tiaozheng" /\ err = NoError
    /\ args.words = << <<"xian2", "yun0">>, <<"A", "lei0">> >>
    /\ self = Tuple("bang", None, "3", "C", "yuan", "shang")
    /\ other = Tuple("bang", None, "3", "A", "xian2", "shang")

----------------------------------------------------------------------------
(* StringLogger *)

\* the calls but the last
Front(calls) == SubSeq(calls, 1, Len(calls) - 1)

\* enable after the calls: what it was last set to, False at creation
RECURSIVE EnabledAfter(_)
EnabledAfter(calls) ==
    IF calls = <<>> THEN FALSE
    ELSE IF calls[Len(calls)] = <<"enable">> THEN TRUE
    ELSE IF calls[Len(calls)] = <<"disable">> THEN FALSE
    ELSE EnabledAfter(Front(calls))

\* the messages logged while enable was true since the last pop_all of the
\* calls, or since creation, in the order of the calls
RECURSIVE Pending(_)
Pending(calls) ==
    IF calls = <<>> \/ calls[Len(calls)] = <<"pop_all">> THEN <<>>
    ELSE IF calls[Len(calls)][1] = "log" /\ EnabledAfter(Front(calls))
    THEN Append(Pending(Front(calls)), calls[Len(calls)][2])
    ELSE Pending(Front(calls))

\* C20: after any sequence of log calls, changes of enable and pop_all calls
\* the buffer holds the messages logged while enable was true since the last
\* pop_all (or since creation), in order; pop_all returns exactly those and
\* leaves the buffer empty, so a pop_all right after a pop_all returns the
\* empty list, and a log call while enable is false leaves the buffer as it was.
C20_PopAllReturnsLogged ==
    /\ logger.buffer = Pending(called)
    /\ pc = "pop_all" => (out = Pending(Front(called)) /\ logger.buffer = <<>>)

\* b was logged while the logger was disabled, a while it was enabled, and
\* pop_all has returned a alone; a second pop_all has returned the empty list
C20_Witness ==
    /\ pc = "pop_all" /\ out = <<>> /\ logger.buffer = <<>>
    /\ called = << <<"log", "b">>, <<"enable">>, <<"log", "a">>, <<"pop_all">>, <<"pop_all">> >>

----------------------------------------------------------------------------
(* 壓縮表示 *)

\* C21: the 編碼 of every valid position has exactly three characters of the
\* 編碼表, and decoding it succeeds and gives a position with the same 描述;
\* 幫三C凡入 has the 編碼 A9P.
C21_BianMaRoundTrip ==
    /\ pc \in {"encode", "decode"} =>
          /\ Len(out) = 3 /\ \A i \in DOMAIN out : out[i] \in Range(BianMaBiao)
          /\ self = Tuple("bang", None, "3", "C", "fan", "ru") => out = <<"A", "9", "P">>
    /\ pc = "decode" => (err = NoError /\ MiaoShu(other) = MiaoShu(self))

\* 端開四麻平, a position of the 麻韻 that is neither 二等 nor 三等, has been
\* encoded and decoded
C21_Witness ==
    /\ pc = "decode" /\ err = NoError
    /\ self = Tuple("duan", "kai", "4", None, "ma", "ping")
    /\ other = self

----------------------------------------------------------------------------
(* 反切: the candidates of 呼 and of 等 *)

\* the list of 呼 that generate呼 returned in the call 執行反切(upper, lower)
SuoYouHu == GenerateHu(upper.mu, MuDaoZu[upper.mu], lower.yun, upper.hu, lower.hu,
                       MuDaoZu[lower.mu]).hu

\* C22: the candidates of 呼 are [None] when the 組 of the upper character is
\* 幫 or the lower 韻 is 開合中立; else the 呼 of the 韻 when it has only 開 or
\* only 合; else [合] when the upper 母 is 云; else [開] when both characters
\* are 開; else [合] when the lower one is 合; else [合] when the upper one is
\* 合 and the 組 of the lower one is 幫; else [開, 合]. Every position that
\* 執行反切 returns has one of them.
C22_HuCandidates ==
    pc = "fanqie" =>
        /\ SuoYouHu =
              IF MuDaoZu[upper.mu] = "bang" \/ lower.yun \in HuYunDaPei.zhongli THEN <<None>>
              ELSE IF lower.yun \in HuYunDaPei.kai THEN <<"kai">>
              ELSE IF lower.yun \in HuYunDaPei.he THEN <<"he">>
              ELSE IF upper.mu = "yun" THEN <<"he">>
              ELSE IF upper.hu = "kai" /\ lower.hu = "kai" THEN <<"kai">>
              ELSE IF lower.hu = "he" THEN <<"he">>
              ELSE IF upper.hu = "he" /\ MuDaoZu[lower.mu] = "bang" THEN <<"he">>
              ELSE <<"kai", "he">>
        /\ err = NoError /\ \A i \in DOMAIN out : out[i].hu \in Range(SuoYouHu)

\* the upper character is 合, the lower one of the 幫組 in a 韻 that has both
\* 呼, and the position returned is 合
C22_Witness ==
    /\ pc = "fanqie" /\ err = NoError
    /\ upper.hu = "he" /\ upper.mu # "yun" /\ MuDaoZu[upper.mu] # "bang"
    /\ lower.hu = None /\ MuDaoZu[lower.mu] = "bang" /\ lower.yun \in HuYunDaPei.kaihe
    /\ out # <<>> /\ \A i \in DOMAIN out : out[i].hu = "he"

\* the list of 等 that generate等 returned in the call 執行反切(upper, lower)
SuoYouDeng == GenerateDeng(upper.mu, lower.yun, upper.deng, lower.deng)

\* the 母 is in a set of 等母搭配 that has the 等
CanTake(mu, deng) == \E i \in DOMAIN DengMuDaPei : mu \in DengMuDaPei[i].mu /\ deng \in DengMuDaPei[i].deng

\* the 等 of a 韻 that has one 等, or None; the 等 other than 三 of a 韻 that has two
LockedDeng(yun) ==
    IF \E d \in Range(SuoYou.deng) : \E i \in DOMAIN DengYunDaPei :
           DengYunDaPei[i].deng = <<d>> /\ yun \in DengYunDaPei[i].yun
    THEN CHOOSE d \in Range(SuoYou.deng) : \E i \in DOMAIN DengYunDaPei :
           DengYunDaPei[i].deng = <<d>> /\ yun \in DengYunDaPei[i].yun
    ELSE None
NonSanDeng(yun) ==
    (CHOOSE k \in {<<"1", "3">>, <<"2", "3">>} : \E i \in DOMAIN DengYunDaPei :
        DengYunDaPei[i].deng = k /\ yun \in DengYunDaPei[i].yun)[1]

\* C23: the candidates of 等 are the 等 of the 韻 when the 韻 has one 等; else
\* [三] when the lower character is 三等; else, when neither character is 三等,
\* the 等 of the 韻 that is not 三; else [三] when the upper 母 cannot be of that
\* 等, that 等 alone when the upper 母 is one of 端透定泥 (一二四), and both, that
\* 等 before 三, when neither narrows it. The list has one or two entries and
\* every position that 執行反切 returns has one of them.
C23_DengCandidates ==
    pc = "fanqie" =>
        /\ SuoYouDeng.err = NoError
        /\ SuoYouDeng.deng =
              IF LockedDeng(lower.yun) # None THEN <<LockedDeng(lower.yun)>>
              ELSE IF lower.deng = "3" THEN <<"3">>
              ELSE IF upper.deng # "3" THEN <<NonSanDeng(lower.yun)>>
              ELSE IF ~CanTake(upper.mu, NonSanDeng(lower.yun)) THEN <<"3">>
              ELSE IF upper.mu \in {"duan", "tou", "ding", "ni"} THEN <<NonSanDeng(lower.yun)>>
              ELSE <<NonSanDeng(lower.yun), "3">>
        /\ Len(SuoYouDeng.deng) \in {1, 2}
        /\ err = NoError /\ \A i \in DOMAIN out : out[i].deng \in Range(SuoYouDeng.deng)

\* the upper character is 三等 of a 母 that has every 等, the lower one 二等 in
\* the 麻韻 or the 庚韻, and positions of 二等 and of 三等 are returned
C23_Witness ==
    /\ pc = "fanqie" /\ err = NoError
    /\ upper.deng = "3" /\ lower.deng = "2" /\ LockedDeng(lower.yun) = None
    /\ SuoYouDeng.deng = <<"2", "3">>
    /\ {out[i].deng : i \in DOMAIN out} = {"2", "3"}

----------------------------------------------------------------------------
(* 反切: the order of the positions returned *)

\* the place of a position in the order 呼 (開 before 合), then 等 (三 last),
\* then 類 (A before B)
Rank(t) ==
    (IF t.hu = "he" THEN 4 ELSE 0) + (IF t.deng = "3" THEN 2 ELSE 0) + (IF t.lei = "B" THEN 1 ELSE 0)

\* the tuples of the 母 of the upper character, a 呼 and a 等 of the two lists,
\* the 類 that rawGenerate類 decides for them, and the 韻 and the 聲 of the
\* lower character
DecidedLei(hu, deng) ==
    RawGenerateLei(lower, upper.mu, MuDaoZu[upper.mu], lower.yun, upper.lei, hu, deng).lei
Combinations ==
    UNION {{Tuple(upper.mu, h, d, l, lower.yun, lower.sheng) :
               l \in IF DecidedLei(h, d) = "AB" THEN {"A", "B"} ELSE {DecidedLei(h, d)}} :
           h \in Range(SuoYouHu), d \in Range(SuoYouDeng.deng)}

----------------------------------------------------------------------------
(* 反切: the messages logged *)

\* the part of the derivation that a message belongs to, by its text
HuMessages ==
    {"bei qie zi wei yun, yun wei kai kou", "bei qie zi wei yun, yun wei he kou",
     "bei qie zi wei yun mu, yun mu wei he kou", "fan qie shang xia zi jun wei kai kou",
     "fan qie xia zi wei he kou", "fan qie shang zi wei he kou, xia zi wei bang zu",
     "wu fa que ding bei qie zi de hu"}
DengMessages ==
    {"bei qie zi wei yun, yun wei deng", "fan qie xia zi wei san deng",
     "fan qie shang xia zi jun fei san deng",
     "yun wei yi deng huo san deng, er fei san deng", "yun wei er deng huo san deng, er fei san deng",
     "bei qie zi wei yun, yun wei yi deng huo san deng",
     "bei qie zi wei yun, yun wei er deng huo san deng",
     "mu bu ke neng wei yi deng", "mu bu ke neng wei er deng",
     "mu bu ke neng wei san deng, gu wei yi deng", "mu bu ke neng wei san deng, gu wei er deng",
     "wu fa que ding deng, yi deng huo san deng", "wu fa que ding deng, er deng huo san deng"}
Part(msg) ==
    IF msg[1] = "fan qie shang zi wei mu" THEN 0
    ELSE IF msg[1] = "fan qie xia zi wei yun sheng" THEN 1
    ELSE IF msg[1] \in HuMessages THEN 2
    ELSE IF msg[1] \in DengMessages THEN 3
    ELSE IF msg[1] = "hu lve wu xiao de yin yun di wei, yuan yin" THEN 5
    ELSE 4

\* the 解釋 of the 類 for a 呼 and a 等, and the 條件 that names them
Explanation(hu, deng) ==
    RawGenerateLei(lower, upper.mu, MuDaoZu[upper.mu], lower.yun, upper.lei, hu, deng).jieshi
Prefix(hu, deng) ==
    IF Len(SuoYouHu) > 1 /\ Len(SuoYouDeng.deng) > 1 THEN <<"dang hu wei, deng wei", hu, deng>>
    ELSE IF Len(SuoYouHu) > 1 THEN <<"dang hu wei", hu>>
    ELSE <<"dang deng wei", deng>>
HuDeng == Range(SuoYouHu) \X Range(SuoYouDeng.deng)

\* the trace has the two lines of the 母 and of the 韻 and 聲, then the lines
\* of the 呼, of the 等, of the 類 and of the positions refused
TraceOf(buffer, results) ==
    LET leilines == SelectSeq(buffer, LAMBDA m : Part(m) = 4)
        hulve == SelectSeq(buffer, LAMBDA m : Part(m) = 5)
        explanations == {Explanation(p[1], p[2]) : p \in HuDeng}
        explained == {p \in HuDeng : Explanation(p[1], p[2]) # NoJieShi}
    IN  /\ Len(buffer) >= 2
        /\ buffer[1] = <<"fan qie shang zi wei mu", upper.mu>>
        /\ buffer[2] = <<"fan qie xia zi wei yun sheng", lower.yun, lower.sheng>>
        /\ \A i \in DOMAIN buffer : \A j \in DOMAIN buffer : i < j => Part(buffer[i]) < Part(buffer[j])
                                                                      \/ (Part(buffer[i]) = Part(buffer[j]) /\ Part(buffer[i]) > 1)
        /\ IF Cardinality(explanations) = 1
           THEN leilines = IF explanations = {NoJieShi} THEN <<>>
                           ELSE <<CHOOSE e \in explanations : TRUE>>
           ELSE /\ Len(leilines) = Cardinality(explained)
                /\ \A p \in explained :
                      Cardinality({i \in DOMAIN leilines :
                                      leilines[i] = Prefix(p[1], p[2]) \o Explanation(p[1], p[2])}) = 1
                /\ \A i \in DOMAIN leilines : \A j \in DOMAIN leilines :
                      i < j => \/ leilines[i][2] = "kai" /\ leilines[j][2] = "he"
                               \/ leilines[i][2] = leilines[j][2] /\ leilines[j][3] = "3"
        /\ Len(hulve) = Cardinality(Combinations) - Len(results)
        /\ \A i \in DOMAIN hulve :
              \E t \in Combinations \ Range(results) :
                  hulve[i][2] = Concat(t.mu, t.hu, t.deng, t.lei, t.yun, t.sheng)

\* C25: a call of 執行反切 with the logger enabled and its buffer empty logs the
\* line of the 母, the line of the 韻 and the 聲, the lines of the 呼, the lines
\* of the 等, the 解釋 of the 類 and at last one line for every position
\* refused; the 解釋 is logged once and without 條件 when every pair of 呼 and
\* 等 has the same one, else once for every pair that has one, after the 條件
\* of the pair. With the logger disabled the call leaves the buffer as it was.
C25_FanQieTrace ==
    [][(pc = "start" /\ pc' = "fanqie" /\ err' = NoError) =>
          /\ logger'.enable = logger.enable
          /\ logger.enable /\ logger.buffer = <<>> => TraceOf(logger'.buffer, out')
          /\ ~logger.enable => logger'.buffer = logger.buffer]_vars

\* the logger is enabled, the two pairs of 呼 and 等 have different 解釋 and
\* two lines with a 條件 are logged, and a line for a position refused
C25_Witness ==
    /\ pc = "fanqie" /\ err = NoError /\ logger.enable
    /\ Cardinality({Explanation(p[1], p[2]) : p \in HuDeng}) > 1
    /\ Len(SelectSeq(logger.buffer, LAMBDA m : Part(m) = 4)) = 2
    /\ \E i \in DOMAIN logger.buffer : Part(logger.buffer[i]) = 5

----------------------------------------------------------------------------
(* 韻鏡: the row of a position *)

\* the number of the block of four rows of a 聲, counted from 0
ToneBlock(sheng) == IndexOf(ShengLst, sheng) - 1

\* C26 as stated: the row is the block of the 聲 times 4 plus the 韻鏡等, and
\* the positions of the 廢韻 and the 夬韻 are in the block of the 去聲
C26_Original ==
    (pc = "weizhi" /\ err = NoError) =>
        wei.shangwei = (IF self.yun \in {"fei", "guai"} THEN ToneBlock("qu")
                        ELSE ToneBlock(self.sheng)) * 4 + RawYunJingDeng(self)

\* C26: the row that 音韻地位2韻鏡位置 computes is the block of the 聲 times 4
\* plus the 韻鏡等, and the positions of the 廢韻 and the 夬韻 are in the
\* fourth block, that of the 入聲, whatever their 聲
C26_RowOfToneBlock ==
    (pc = "weizhi" /\ err = NoError) =>
        wei.shangwei = (IF self.yun \in {"fei", "guai"} THEN ToneBlock("ru")
                        ELSE ToneBlock(self.sheng)) * 4 + RawYunJingDeng(self)

\* a position of the 廢韻 or the 夬韻 has its row in the fourth block
C26_Witness ==
    /\ pc = "weizhi" /\ err = NoError
    /\ self.yun \in {"fei", "guai"} /\ self.sheng = "qu"
    /\ wei.shangwei \in 13..16

----------------------------------------------------------------------------
(* 屬於: the invalid conditions *)

\* the ValueError of a word that is no condition, as the tests give it:
\* "unknown 韻: 桓", "unknown 類: 重, 紐", "unrecognized test condition: 短路"
InvalidLeaf(word) ==
    IF word = <<"huan1", "yun0">> THEN <<"unknown", "yun0", <<"huan1">> >>
    ELSE IF word = <<"chong2", "niu", "A", "lei0">> THEN <<"unknown", "lei0", <<"chong2", "niu">> >>
    ELSE IF word = <<"duan3", "lu">> THEN <<"unrecognized test condition", <<"duan3", "lu">> >>
    ELSE NoError

\* the places of the words that are no condition
InvalidPlaces(words) == {i \in DOMAIN words : InvalidLeaf(words[i]) # NoError}

\* C27: 屬於 evaluates every condition of the expression before it parses it:
\* when a word is no condition, or has a value its attribute cannot take, the
\* ValueError of the first such word is raised, with exactly its invalid
\* values, wherever the word stands (also in an operand that would not be
\* evaluated) and whatever the syntax of the rest; when every word is a
\* condition no such error is raised.
C27_InvalidLeafFirst ==
    pc = "shuyu" =>
        IF InvalidPlaces(args.words) # {}
        THEN err = InvalidLeaf(args.words[CHOOSE i \in InvalidPlaces(args.words) :
                                              \A j \in InvalidPlaces(args.words) : i <= j])
        ELSE err = NoError \/ err[1] \notin {"unknown", "unrecognized test condition"}

\* 三等 或 桓韻 on a position of the 三等: the 桓韻 is reported
C27_Witness ==
    /\ pc = "shuyu"
    /\ args.words = << <<"3", "deng0">>, <<"huo">>, <<"huan1", "yun0">> >>
    /\ err = <<"unknown", "yun0", <<"huan1">> >>

\* ( 或 重紐A類: the two values of 重紐A類 are reported and not the syntax
C27_SyntaxWitness ==
    /\ pc = "shuyu"
    /\ args.words = << <<"(">>, <<"huo">>, <<"chong2", "niu", "A", "lei0">> >>
    /\ err = <<"unknown", "lei0", <<"chong2", "niu">> >>

----------------------------------------------------------------------------
(* 韻圖等 and the row of the 韻鏡 *)

\* C28: when 音韻地位2韻鏡位置 returns a 韻鏡位置 for a position, the 韻圖等
\* of the position is the 等 of the row, 等lst[韻鏡等 - 1]
C28_YunTuDengIsRowDeng ==
    (pc = "weizhi" /\ err = NoError) => YunTuDeng(self) = DengLst[YunJingDeng(wei)]

\* C29: the 韻鏡等 that 音韻地位2韻鏡位置 computes for a valid position is
\* between 1 and 4, so that the row returned is in the four rows of the 聲 of
\* the position (the fourth four for the 廢韻 and the 夬韻) and its 韻鏡等 is
\* the one computed
C29_RawDengInRange ==
    (pc \in {"new", "weizhi"} /\ err = NoError) =>
        /\ RawYunJingDeng(self) \in 1..4
        /\ pc = "weizhi" =>
              /\ YunJingDeng(wei) = RawYunJingDeng(self)
              /\ (wei.shangwei - 1) \div 4 =
                    IF self.yun \in {"fei", "guai"} THEN 3 ELSE ToneBlock(self.sheng)

----------------------------------------------------------------------------
(* 調整 and the 邊緣地位種類 *)

====
